---- MODULE Spec2Model ----
(***************************************************************************)
(* A model of the campaign provisioning saga of GoogleAdsService           *)
(* (createCampaign, rollbackCampaignCreation) and of its error classifier  *)
(* (createHttpException, extractGoogleAdsErrorDetails,                     *)
(* determineStatusCode, extractErrorMessage).                              *)
(*                                                                         *)
(* Every await of the source is a suspension point: an action is the       *)
(* platform's answer to the call in flight together with the synchronous   *)
(* code that runs up to the next await.  The advertising platform is the   *)
(* environment: it answers each call with success or with a rejection      *)
(* whose payload is any value of the payload domain below.                 *)
(***************************************************************************)
EXTENDS Integers, Sequences, FiniteSets, TLC

VARIABLES
    pc,                     \* the call createCampaign is suspended on, or idle / returned / rejected
    config,                 \* the CampaignConfig of the attempt
    budgetResourceName,     \* createCampaign's local of that name (Null until step 1 succeeds)
    campaignResourceName,   \* createCampaign's local of that name (Null until step 2 succeeds)
    adGroupResourceName,    \* adGroup.resource_name (Null until step 3 succeeds)
    error,                  \* the value caught by createCampaign's catch block
    stepError,              \* the payload the platform rejected the failing step with
    failedStep,             \* the step that failed, or Null
    campaignRemoved,        \* rollbackCampaignCreation's local of that name
    rollback,               \* rollbackCampaignCreation: not invoked / running / completed / threw
    outcome,                \* what createCampaign settled with
    trace,                  \* history: the platform calls issued and answered, in order
    inflight,               \* the calls issued and not yet answered
    platformCampaign,       \* status of the attempt's campaign on the platform
    enableCalled,           \* history: enableCampaign was called for the attempt's campaign
    clsInput,               \* classifier run: the error payload handed to createHttpException
    clsOutput,              \* classifier run: what createHttpException produced
    articles,               \* ArticlesService.articles: the article store, in insertion order
    clock,                  \* the wall clock (new Date(), Date.now()), in hours
    campaigns,              \* CampaignsService.campaigns: the registry, in insertion order
    task,                   \* per caller: the CampaignsService call in progress and its locals
    attempts,               \* history: number of googleAdsService.createCampaign calls made
    submitted,              \* history: the campaign names those calls submitted, in order
    platform,               \* the platform: the status of each campaign, by resource name
    mtInput,                \* matcher run: the trends handed to matchWithTrends
    mtOutput,               \* matcher run: what matchWithTrends returned
    scInput,                \* scorer run: the trend, the article and Date.now()
    scOutput,               \* scorer run: what calculateRelevanceScore returned
    msNow,                  \* Date.now() as createCampaignBudget reads it, in milliseconds
    budgetAttempts          \* history: the budget creations submitted, in order, and their fate

sagaVars == <<pc, config, budgetResourceName, campaignResourceName, adGroupResourceName,
              error, stepError, failedStep, campaignRemoved, rollback, outcome, trace,
              inflight, platformCampaign, enableCalled>>
clsVars == <<clsInput, clsOutput>>
svcVars == <<articles, clock, campaigns, task, attempts, submitted, platform>>
mtVars == <<mtInput, mtOutput, scInput, scOutput>>
bdgVars == <<msNow, budgetAttempts>>
nonSagaVars == <<clsVars, svcVars, mtVars, bdgVars>>
nonServiceVars == <<sagaVars, clsVars, mtVars, bdgVars>>
vars == <<sagaVars, clsVars, svcVars, mtVars, bdgVars>>

Null == "null"
Undefined == "undefined"


(***************************************************************************)
(* Bounds of the model.                                                    *)
(***************************************************************************)
\* longest sub-error list of a payload handed to the classifier on its own
MaxErrors == 2
\* longest sub-error list of a payload the platform rejects a saga call with
MaxStepErrors == 1

(***************************************************************************)
(* HttpStatus values used by the classifier.                               *)
(***************************************************************************)
BAD_REQUEST == 400
UNAUTHORIZED == 401
FORBIDDEN == 403
NOT_FOUND == 404
TOO_MANY_REQUESTS == 429
INTERNAL_SERVER_ERROR == 500

(***************************************************************************)
(* Error payloads.  The source types every caught error as `any`; a        *)
(* payload records exactly the features the source inspects.               *)
(*   kind          undefined/null, an HttpException instance, or another   *)
(*                 object (an Error, a GoogleAdsFailure, ...)              *)
(*   serializable  whether JSON.stringify(error) returns (it throws a      *)
(*                 TypeError on a circular structure or a BigInt)          *)
(*   hasErrors     whether error.errors is an array; errors is that array  *)
(*   message       error.message: Undefined, a string, or NonString        *)
(*   request_id    error.request_id: Undefined or a string                 *)
(* A sub-error is null, or a value with                                    *)
(*   error_code    absent, or an object whose first key/value are          *)
(*                 type/value (both Undefined for the empty object {})     *)
(*   message       Undefined or a string                                   *)
(*   location      "absent", "fields" (field_path_elements is an array of  *)
(*                 {field_name}) or "malformed" (field_path_elements is    *)
(*                 not an array, or holds null)                            *)
(* A sub-error that is a primitive (a number, a string) has none of the    *)
(* three properties and is the all-absent sub-error.                       *)
(***************************************************************************)
NonString == "<non-string>"

NoCode == [present |-> FALSE, type |-> Undefined, value |-> Undefined]
EmptyCode == [present |-> TRUE, type |-> Undefined, value |-> Undefined]
Code(t, v) == [present |-> TRUE, type |-> t, value |-> v]

SubError(c, m, l) == [isNull |-> FALSE, error_code |-> c, message |-> m, location |-> l]
NullSubError == [isNull |-> TRUE, error_code |-> NoCode, message |-> Undefined,
                 location |-> "absent"]

KnownCodes ==
    { Code("range_error", "TOO_LOW"),
      Code("campaign_error", "DUPLICATE_CAMPAIGN_NAME"),
      Code("authentication_error", "OAUTH_TOKEN_INVALID"),
      Code("authorization_error", "USER_PERMISSION_DENIED"),
      Code("resource_not_found_error", "RESOURCE_NOT_FOUND"),
      Code("quota_error", "RESOURCE_EXHAUSTED") }

SubErrors ==
    { SubError(c, "sub-error message", "absent") : c \in KnownCodes }
    \cup { SubError(Code("internal_error", "INTERNAL_ERROR"), "sub-error message", "absent"),
           SubError(NoCode, Undefined, "absent"),
           SubError(EmptyCode, "CampaignBudget is in use", "absent"),
           SubError(Code("field_error", "REQUIRED"), "sub-error message", "fields"),
           SubError(Code("quota_error", "RESOURCE_EXHAUSTED"), Undefined, "malformed"),
           NullSubError }

RECURSIVE SeqsUpTo(_, _)
SeqsUpTo(S, n) ==
    IF n = 0 THEN {<<>>}
    ELSE LET shorter == SeqsUpTo(S, n - 1)
         IN  shorter \cup { Append(s, x) : s \in {t \in shorter : Len(t) = n - 1}, x \in S }

Payload(k, s, h, e, m, r) ==
    [kind |-> k, serializable |-> s, hasErrors |-> h, errors |-> e, message |-> m,
     request_id |-> r]

UndefinedError == Payload("undefined", TRUE, FALSE, <<>>, Undefined, Undefined)
\* a NestJS HttpException built elsewhere, e.g. new NotFoundException('...'):
\* its response body is {statusCode, message, error}
ForeignHttpException == Payload("HttpException", TRUE, FALSE, <<>>, "Not Found", Undefined)
\* the TypeError JSON.stringify throws: an Error with a message and no own enumerable fields
StringifyTypeError ==
    Payload("object", TRUE, FALSE, <<>>, "Converting circular structure to JSON", Undefined)
\* the RangeError Date.prototype.toISOString throws on an invalid date
InvalidTimeError == Payload("object", TRUE, FALSE, <<>>, "Invalid time value", Undefined)

PlainErrors ==
    { Payload("object", s, FALSE, <<>>, m, Undefined) :
        s \in BOOLEAN,
        m \in {Undefined, "14 UNAVAILABLE", "CampaignBudget is in use", NonString} }

AdsFailures(n) ==
    { Payload("object", TRUE, TRUE, e, Undefined, r) :
        e \in SeqsUpTo(SubErrors, n), r \in {Undefined, "req-1"} }

Payloads(n) == {UndefinedError, ForeignHttpException} \cup PlainErrors \cup AdsFailures(n)

(***************************************************************************)
(* Values a JavaScript function settles with: a returned value or a thrown *)
(* TypeError.                                                              *)
(***************************************************************************)
Returned(v) == [threw |-> FALSE, value |-> v]
Thrown == [threw |-> TRUE]

(***************************************************************************)
(* Strings.  A message is kept as the sequence of the parts that           *)
(* Array.prototype.join glues with "; "; String.prototype.includes is      *)
(* decided per part (no needle contains the separator).                    *)
(***************************************************************************)
\* the message texts of the payload domain that contain 'associated with' or 'in use'
MentionsInUse(text) == text \in {"CampaignBudget is in use"}

\* JSON.stringify(e.error_code) as used in extractErrorMessage: undefined for a missing
\* error_code (join renders it as the empty string), otherwise the JSON text of the object
StringifyErrorCode(error_code) ==
    IF ~error_code.present THEN ""
    ELSE IF error_code.type = Undefined THEN "{}"
    ELSE "{error_code}"

(***************************************************************************)
(* GoogleAdsService.extractErrorMessage: the message of a rollback error.  *)
(* It throws a TypeError on a null sub-error (e.message of null) and when  *)
(* JSON.stringify(error) throws.  The value is the sequence of joined      *)
(* parts; <<NonString>> stands for a truthy error.message that is not a    *)
(* string, which is returned as it is.                                     *)
(***************************************************************************)
extractErrorMessage(err) ==
    IF err.kind = "undefined" THEN Returned(<<"Unknown error">>)
    ELSE IF err.hasErrors /\ Len(err.errors) > 0
    THEN IF \E i \in 1..Len(err.errors) : err.errors[i].isNull
         THEN Thrown
         ELSE Returned([i \in 1..Len(err.errors) |->
                          IF err.errors[i].message # Undefined
                          THEN err.errors[i].message
                          ELSE StringifyErrorCode(err.errors[i].error_code)])
    ELSE IF err.message # Undefined THEN Returned(<<err.message>>)
    ELSE IF err.serializable THEN Returned(<<"{error}">>)
    ELSE Thrown

(***************************************************************************)
(* GoogleAdsService.determineStatusCode: the first sub-error, in list      *)
(* order, that matches one of the branches decides.  error.error_code of a *)
(* null sub-error throws.                                                  *)
(***************************************************************************)
ValidationTypes == {"range_error", "currency_error", "string_length_error", "field_error"}
ValidationValues == {"DUPLICATE_CAMPAIGN_NAME", "DUPLICATE_NAME", "TOO_LOW", "TOO_HIGH",
                     "VALUE_NOT_MULTIPLE_OF_BILLABLE_UNIT"}

\* a classifier that ranks the categories over the whole list instead of taking
\* the first sub-error that matches
determineStatusCodeByPrecedence(errors) ==
    LET types == {errors[i].error_code.type : i \in 1..Len(errors)}
        values == {errors[i].error_code.value : i \in 1..Len(errors)}
    IN  IF \E i \in 1..Len(errors) : errors[i].isNull THEN Thrown
        ELSE IF types \cap ValidationTypes # {} \/ values \cap ValidationValues # {}
        THEN Returned(BAD_REQUEST)
        ELSE IF "authentication_error" \in types THEN Returned(UNAUTHORIZED)
        ELSE IF "authorization_error" \in types THEN Returned(FORBIDDEN)
        ELSE IF "resource_not_found_error" \in types THEN Returned(NOT_FOUND)
        ELSE IF "quota_error" \in types THEN Returned(TOO_MANY_REQUESTS)
        ELSE Returned(BAD_REQUEST)

RECURSIVE determineStatusCode(_)
determineStatusCode(errors) ==
    IF errors = <<>> THEN Returned(BAD_REQUEST)
    ELSE IF Head(errors).isNull THEN Thrown
    ELSE LET errorType == Head(errors).error_code.type
             errorValue == Head(errors).error_code.value
         IN  IF errorType \in ValidationTypes \/ errorValue \in ValidationValues
             THEN Returned(BAD_REQUEST)
             ELSE IF errorType = "authentication_error" THEN Returned(UNAUTHORIZED)
             ELSE IF errorType = "authorization_error" THEN Returned(FORBIDDEN)
             ELSE IF errorType = "resource_not_found_error" THEN Returned(NOT_FOUND)
             ELSE IF errorType = "quota_error" THEN Returned(TOO_MANY_REQUESTS)
             ELSE determineStatusCode(Tail(errors))

(***************************************************************************)
(* GoogleAdsService.extractGoogleAdsErrorDetails.  The map over the        *)
(* sub-errors throws on a null element (e.error_code of null) and on a     *)
(* malformed location (field_path_elements.map is not a function, or       *)
(* f.field_name of null); it runs before determineStatusCode.              *)
(***************************************************************************)
FormattedError(e) ==
    [code    |-> IF e.error_code.present THEN e.error_code.type ELSE "UNKNOWN",
     type    |-> IF e.error_code.present THEN e.error_code.value ELSE "UNKNOWN",
     message |-> IF e.message # Undefined THEN e.message ELSE "Unknown error",
     field   |-> IF e.location = "fields" THEN "field.path" ELSE Null,
     trigger |-> Null]

\* a classifier that gives a payload without sub-errors the same 400 as an
\* unmatched sub-error list
extractGoogleAdsErrorDetailsGeneric400(err) ==
    LET requestId == IF err.kind = "undefined" \/ err.request_id = Undefined
                     THEN Null ELSE err.request_id
    IN  IF err.kind # "undefined" /\ err.hasErrors /\ Len(err.errors) > 0
        THEN IF \E i \in 1..Len(err.errors) :
                    err.errors[i].isNull \/ err.errors[i].location = "malformed"
             THEN Thrown
             ELSE LET formattedErrors == [i \in 1..Len(err.errors) |->
                                            FormattedError(err.errors[i])]
                      statusCode == determineStatusCode(err.errors)
                  IN  IF statusCode.threw THEN Thrown
                      ELSE Returned([statusCode |-> statusCode.value,
                                     message    |-> formattedErrors[1].message,
                                     errors     |-> formattedErrors,
                                     requestId  |-> requestId])
        ELSE Returned([statusCode |-> BAD_REQUEST,
                       message    |-> IF err.kind = "undefined" \/ err.message = Undefined
                                      THEN "An unexpected error occurred" ELSE err.message,
                       errors     |-> <<>>,
                       requestId  |-> requestId])

extractGoogleAdsErrorDetails(err) ==
    LET requestId == IF err.kind = "undefined" \/ err.request_id = Undefined
                     THEN Null ELSE err.request_id
    IN  IF err.kind # "undefined" /\ err.hasErrors /\ Len(err.errors) > 0
        THEN IF \E i \in 1..Len(err.errors) :
                    err.errors[i].isNull \/ err.errors[i].location = "malformed"
             THEN Thrown
             ELSE LET formattedErrors == [i \in 1..Len(err.errors) |->
                                            FormattedError(err.errors[i])]
                      statusCode == determineStatusCode(err.errors)
                  IN  IF statusCode.threw THEN Thrown
                      ELSE Returned([statusCode |-> statusCode.value,
                                     message    |-> formattedErrors[1].message,
                                     errors     |-> formattedErrors,
                                     requestId  |-> requestId])
        ELSE Returned([statusCode |-> INTERNAL_SERVER_ERROR,
                       message    |-> IF err.kind = "undefined" \/ err.message = Undefined
                                      THEN "An unexpected error occurred" ELSE err.message,
                       errors     |-> <<>>,
                       requestId  |-> requestId])

(***************************************************************************)
(* GoogleAdsService.createHttpException.  An HttpException is              *)
(* [status, body]: status is getStatus(), body is getResponse().  An error *)
(* that is already an HttpException is returned as it is, with the body it *)
(* was built with.                                                         *)
(***************************************************************************)
HttpException(body, status) == [status |-> status, body |-> body]

\* the HttpException instance a payload of kind "HttpException" stands for
AsHttpException(err) ==
    HttpException([statusCode |-> NOT_FOUND, message |-> err.message, error |-> "Not Found"],
                  NOT_FOUND)

createHttpException(err) ==
    IF err.kind = "HttpException" THEN Returned(AsHttpException(err))
    ELSE LET errorDetails == extractGoogleAdsErrorDetails(err)
         IN  IF errorDetails.threw THEN Thrown
             ELSE Returned(HttpException(
                      [statusCode |-> errorDetails.value.statusCode,
                       message    |-> errorDetails.value.message,
                       errors     |-> errorDetails.value.errors,
                       requestId  |-> errorDetails.value.requestId,
                       timestamp  |-> "now"],
                      errorDetails.value.statusCode))

(***************************************************************************)
(* The provisioning saga: GoogleAdsService.createCampaign.                 *)
(***************************************************************************)
\* the platform calls, named by the SDK method createCampaign awaits
BudgetCreate == "campaignBudgets.create"
CampaignCreate == "campaigns.create"
AdGroupCreate == "adGroups.create"
KeywordsCreate == "adGroupCriteria.create"
AdCreate == "adGroupAds.create"
CampaignRemove == "campaigns.remove"
CampaignUpdate == "campaigns.update"
PropagationDelay == "setTimeout"
BudgetRemove == "campaignBudgets.remove"
NoCall == "none"

CreateCalls == {BudgetCreate, CampaignCreate, AdGroupCreate, KeywordsCreate, AdCreate}
RemovalCalls == {CampaignRemove, CampaignUpdate, BudgetRemove}

\* a saga that creates the ad before the keywords
StepOrderAdFirst == <<BudgetCreate, CampaignCreate, AdGroupCreate, AdCreate, KeywordsCreate>>

\* the order of the five steps in createCampaign's try block
StepOrder == <<BudgetCreate, CampaignCreate, AdGroupCreate, KeywordsCreate, AdCreate>>

StepIndex(call) == CHOOSE i \in 1..Len(StepOrder) : StepOrder[i] = call

\* the call createCampaign issues once the awaited create call has succeeded
NextStep(call) == StepOrder[StepIndex(call) + 1]

\* resource names are paths; a local that is still null is the empty path
NoHandle == <<>>
BudgetHandles == { <<"customers", "1", "campaignBudgets", "11">> }
CampaignHandles == { <<"customers", "1", "campaigns", "22">> }
AdGroupHandles == { <<"customers", "1", "adGroups", "33">> }

\* GoogleAdsService.extractId: the trailing segment of resourceName.split('/')
extractId(resourceName) == resourceName[Len(resourceName)]

\* a campaign submitted as ENABLED
campaignDataEnabled(cfg, budget) ==
    [name |-> cfg.name, status |-> "ENABLED", campaign_budget |-> budget]

\* the campaign createCampaign submits in step 2 (the fields the platform state depends on)
campaignData(cfg, budget) ==
    [name |-> cfg.name, status |-> "PAUSED", campaign_budget |-> budget]

\* the CampaignResult createCampaign returns
CampaignResult(campaign, adGroup) ==
    [campaignId   |-> extractId(campaign),
     adGroupId    |-> extractId(adGroup),
     status       |-> "PAUSED",
     resourceName |-> campaign]

\* the CampaignConfig values of the model: formatDate throws a RangeError on an
\* invalid Date (a duration that leaves the Date range)
Configs == [name : {"Express: trend - 2026-01-01"}, datesValid : BOOLEAN]

\* the catch blocks of createCampaignBudget, createAdGroup, addKeywords and
\* createResponsiveSearchAd log JSON.stringify(error) and rethrow; step 2 calls the
\* SDK directly from createCampaign
InnerCatch(call, err) ==
    IF call # CampaignCreate /\ ~err.serializable THEN StringifyTypeError ELSE err

\* whether the logging of createCampaign's catch block throws (JSON.stringify(error))
CatchLoggingThrows(err) == ~err.serializable

\* what createCampaign settles with
NoOutcome == [kind |-> "none"]
Resolved(result) == [kind |-> "CampaignResult", result |-> result]
RejectedHttp(exception) == [kind |-> "HttpException", exception |-> exception]
RejectedRaw(thrownBy) == [kind |-> "TypeError", thrownBy |-> thrownBy]

\* throw this.createHttpException(error)
Rejection(err) ==
    LET h == createHttpException(err)
    IN  IF h.threw THEN RejectedRaw("createHttpException") ELSE RejectedHttp(h.value)

(***************************************************************************)
(* rollbackCampaignCreation: the decisions it takes.                       *)
(***************************************************************************)
\* a rollback that removes the budget before the campaign
RollbackFirstBudget(campaign, budget) ==
    IF budget # NoHandle THEN BudgetRemove
    ELSE IF campaign # NoHandle THEN CampaignRemove
    ELSE NoCall

\* a catch block that issues the budget creation again when nothing was created
RollbackFirstRetry(campaign, budget) ==
    IF campaign # NoHandle THEN CampaignRemove
    ELSE IF budget # NoHandle THEN BudgetRemove
    ELSE BudgetCreate

\* the first call of a rollback: the campaign first, then the budget
RollbackFirst(campaign, budget) ==
    IF campaign # NoHandle THEN CampaignRemove
    ELSE IF budget # NoHandle THEN BudgetRemove
    ELSE NoCall

\* a rollback that waits before the budget removal whether or not the campaign
\* was removed
BudgetPhaseAlwaysDelay(budget, removed) ==
    IF budget = NoHandle THEN NoCall ELSE PropagationDelay

\* what follows the campaign removal: the budget, after the propagation delay when
\* the campaign was removed
BudgetPhase(budget, removed) ==
    IF budget = NoHandle THEN NoCall
    ELSE IF removed THEN PropagationDelay
    ELSE BudgetRemove

\* the catch (removeError) and catch (updateError) handlers: extractErrorMessage and
\* JSON.stringify run outside any try
CampaignHandlerThrows(err) == extractErrorMessage(err).threw \/ ~err.serializable

\* the catch (rollbackError) handler of the budget removal: extractErrorMessage,
\* JSON.stringify, then errorMessage.includes(...), which is no function of a non-string
BudgetHandlerThrows(err) ==
    \/ extractErrorMessage(err).threw
    \/ ~err.serializable
    \/ extractErrorMessage(err).value = <<NonString>>

(***************************************************************************)
(* Building blocks of the actions.                                         *)
(***************************************************************************)
Event(ev, op) == [ev |-> ev, op |-> op]

\* the call in flight is answered and createCampaign goes on to await `call`
Proceed(answer, call) ==
    /\ pc' = call
    /\ trace' = trace \o <<Event(answer, pc), Event("call", call)>>
    /\ inflight' = (inflight \ {pc}) \cup {call}

\* the call in flight is answered and createCampaign settles
Settle(answer, result) ==
    /\ pc' = IF result.kind = "CampaignResult" THEN "returned" ELSE "rejected"
    /\ trace' = Append(trace, Event(answer, pc))
    /\ inflight' = inflight \ {pc}
    /\ outcome' = result

\* rollbackCampaignCreation has returned: throw this.createHttpException(error)
RollbackReturns(answer) ==
    /\ rollback' = "completed"
    /\ Settle(answer, Rejection(error))

\* rollbackCampaignCreation threw out of one of its catch handlers
RollbackThrows(answer) ==
    /\ rollback' = "threw"
    /\ Settle(answer, RejectedRaw("rollbackCampaignCreation"))

\* createCampaign's catch block, entered with the locals `campaign` and `budget`
Catch(answer, caught, campaign, budget) ==
    /\ error' = caught
    /\ campaignRemoved' = FALSE
    /\ IF CatchLoggingThrows(caught)
       THEN /\ rollback' = "not invoked"
            /\ Settle(answer, RejectedRaw("catch logging"))
       ELSE IF RollbackFirst(campaign, budget) = NoCall
       THEN /\ rollback' = "completed"
            /\ Settle(answer, Rejection(caught))
       ELSE /\ rollback' = "running"
            /\ Proceed(answer, RollbackFirst(campaign, budget))
            /\ UNCHANGED outcome

(***************************************************************************)
(* Actions of the saga.                                                    *)
(***************************************************************************)
StepPayloads == Payloads(MaxStepErrors)

\* createCampaign(config) is called: the locals are null and step 1 is issued
CreateCampaign(cfg) ==
    /\ pc \in {"idle", "returned", "rejected"}
    /\ config' = cfg
    /\ budgetResourceName' = NoHandle
    /\ campaignResourceName' = NoHandle
    /\ adGroupResourceName' = NoHandle
    /\ error' = UndefinedError
    /\ stepError' = UndefinedError
    /\ failedStep' = Null
    /\ campaignRemoved' = FALSE
    /\ rollback' = "not invoked"
    /\ outcome' = NoOutcome
    /\ pc' = StepOrder[1]
    /\ trace' = <<Event("call", StepOrder[1])>>
    /\ inflight' = {StepOrder[1]}
    /\ platformCampaign' = "NONE"
    /\ enableCalled' = FALSE
    /\ UNCHANGED nonSagaVars

\* step 1 succeeded; campaignData is built, and formatDate throws on an invalid date
BudgetCreated(handle) ==
    /\ pc = BudgetCreate
    /\ budgetResourceName' = handle
    /\ IF config.datesValid
       THEN /\ Proceed("ok", NextStep(pc))
            /\ UNCHANGED <<error, stepError, failedStep, campaignRemoved, rollback, outcome>>
       ELSE /\ failedStep' = CampaignCreate
            /\ stepError' = InvalidTimeError
            /\ Catch("ok", InvalidTimeError, campaignResourceName, handle)
    /\ UNCHANGED <<config, campaignResourceName, adGroupResourceName, platformCampaign,
                   enableCalled, nonSagaVars>>

\* step 2 succeeded: the platform holds the campaign in the submitted status
CampaignCreated(handle) ==
    /\ pc = CampaignCreate
    /\ campaignResourceName' = handle
    /\ platformCampaign' = campaignData(config, budgetResourceName).status
    /\ Proceed("ok", NextStep(pc))
    /\ UNCHANGED <<config, budgetResourceName, adGroupResourceName, error, stepError,
                   failedStep, campaignRemoved, rollback, outcome, enableCalled, nonSagaVars>>

\* step 3 succeeded
AdGroupCreated(handle) ==
    /\ pc = AdGroupCreate
    /\ adGroupResourceName' = handle
    /\ Proceed("ok", NextStep(pc))
    /\ UNCHANGED <<config, budgetResourceName, campaignResourceName, error, stepError,
                   failedStep, campaignRemoved, rollback, outcome, platformCampaign,
                   enableCalled, nonSagaVars>>

\* step 4 succeeded
KeywordsAdded ==
    /\ pc = KeywordsCreate
    /\ Proceed("ok", NextStep(pc))
    /\ UNCHANGED <<config, budgetResourceName, campaignResourceName, adGroupResourceName,
                   error, stepError, failedStep, campaignRemoved, rollback, outcome,
                   platformCampaign, enableCalled, nonSagaVars>>

\* step 5 succeeded: createCampaign returns the CampaignResult
AdCreated ==
    /\ pc = AdCreate
    /\ Settle("ok", Resolved(CampaignResult(campaignResourceName, adGroupResourceName)))
    /\ UNCHANGED <<config, budgetResourceName, campaignResourceName, adGroupResourceName,
                   error, stepError, failedStep, campaignRemoved, rollback,
                   platformCampaign, enableCalled, nonSagaVars>>

\* the platform rejects the create call in flight with `payload`
StepRejected(payload) ==
    /\ pc \in CreateCalls
    /\ failedStep' = pc
    /\ stepError' = payload
    /\ Catch("rejected", InnerCatch(pc, payload), campaignResourceName, budgetResourceName)
    /\ UNCHANGED <<config, budgetResourceName, campaignResourceName, adGroupResourceName,
                   platformCampaign, enableCalled, nonSagaVars>>

\* either removal of the campaign succeeded: go on to the budget
CampaignGone(answer) ==
    /\ campaignRemoved' = TRUE
    /\ platformCampaign' = "REMOVED"
    /\ IF BudgetPhase(budgetResourceName, TRUE) = NoCall
       THEN RollbackReturns(answer)
       ELSE /\ Proceed(answer, BudgetPhase(budgetResourceName, TRUE))
            /\ UNCHANGED <<rollback, outcome>>
    /\ UNCHANGED <<config, budgetResourceName, campaignResourceName, adGroupResourceName,
                   error, stepError, failedStep, enableCalled, nonSagaVars>>

\* rollback strategy 1 succeeded
CampaignRemoveOk ==
    /\ pc = CampaignRemove
    /\ CampaignGone("ok")

\* rollback strategy 1 was rejected: fall back to update with status REMOVED
CampaignRemoveRejected(payload) ==
    /\ pc = CampaignRemove
    /\ IF CampaignHandlerThrows(payload)
       THEN RollbackThrows("rejected")
       ELSE /\ Proceed("rejected", CampaignUpdate)
            /\ UNCHANGED <<rollback, outcome>>
    /\ UNCHANGED <<config, budgetResourceName, campaignResourceName, adGroupResourceName,
                   error, stepError, failedStep, campaignRemoved, platformCampaign,
                   enableCalled, nonSagaVars>>

\* rollback strategy 2 succeeded
CampaignUpdateOk ==
    /\ pc = CampaignUpdate
    /\ CampaignGone("ok")

\* rollback strategy 2 was rejected as well: the campaign stays, go on to the budget
CampaignUpdateRejected(payload) ==
    /\ pc = CampaignUpdate
    /\ IF CampaignHandlerThrows(payload)
       THEN RollbackThrows("rejected")
       ELSE IF BudgetPhase(budgetResourceName, campaignRemoved) = NoCall
       THEN RollbackReturns("rejected")
       ELSE /\ Proceed("rejected", BudgetPhase(budgetResourceName, campaignRemoved))
            /\ UNCHANGED <<rollback, outcome>>
    /\ UNCHANGED <<config, budgetResourceName, campaignResourceName, adGroupResourceName,
                   error, stepError, failedStep, campaignRemoved, platformCampaign,
                   enableCalled, nonSagaVars>>

\* the 2 s propagation delay has elapsed: the budget removal is issued
DelayElapsed ==
    /\ pc = PropagationDelay
    /\ Proceed("ok", BudgetRemove)
    /\ UNCHANGED <<config, budgetResourceName, campaignResourceName, adGroupResourceName,
                   error, stepError, failedStep, campaignRemoved, rollback, outcome,
                   platformCampaign, enableCalled, nonSagaVars>>

\* the budget removal succeeded: rollback returns and createCampaign rejects
BudgetRemoveOk ==
    /\ pc = BudgetRemove
    /\ RollbackReturns("ok")
    /\ UNCHANGED <<config, budgetResourceName, campaignResourceName, adGroupResourceName,
                   error, stepError, failedStep, campaignRemoved, platformCampaign,
                   enableCalled, nonSagaVars>>

\* the budget removal was rejected: it is logged, not retried
BudgetRemoveRejected(payload) ==
    /\ pc = BudgetRemove
    /\ IF BudgetHandlerThrows(payload)
       THEN RollbackThrows("rejected")
       ELSE RollbackReturns("rejected")
    /\ UNCHANGED <<config, budgetResourceName, campaignResourceName, adGroupResourceName,
                   error, stepError, failedStep, campaignRemoved, platformCampaign,
                   enableCalled, nonSagaVars>>

\* GoogleAdsService.enableCampaign / pauseCampaign on the handle createCampaign
\* returned: one campaigns.update, which the platform applies or rejects
EnableCampaign(applied) ==
    /\ pc = "returned"
    /\ platformCampaign \in {"PAUSED", "ENABLED"}
    /\ enableCalled' = TRUE
    /\ platformCampaign' = IF applied THEN "ENABLED" ELSE platformCampaign
    /\ UNCHANGED <<pc, config, budgetResourceName, campaignResourceName,
                   adGroupResourceName, error, stepError, failedStep, campaignRemoved,
                   rollback, outcome, trace, inflight, nonSagaVars>>

PauseCampaign(applied) ==
    /\ pc = "returned"
    /\ platformCampaign \in {"PAUSED", "ENABLED"}
    /\ platformCampaign' = IF applied THEN "PAUSED" ELSE platformCampaign
    /\ UNCHANGED <<pc, config, budgetResourceName, campaignResourceName,
                   adGroupResourceName, error, stepError, failedStep, campaignRemoved,
                   rollback, outcome, trace, inflight, enableCalled, nonSagaVars>>

(***************************************************************************)
(* The parts of the program a specification leaves at rest.                *)
(***************************************************************************)
\* the clients that call the campaigns service; each has at most one call in progress
Callers == {"a", "b"}

\* the locals of a CampaignsService call; a caller with no call has the idle task
IdleTask ==
    [op         |-> "none",     \* the method called
     pc         |-> "idle",     \* the call it awaits, or idle / returned / rejected
     log        |-> <<>>,       \* history: what the call issued and was answered, in order
     outcome    |-> NoOutcome,  \* what the call settled with
     dto        |-> NoOutcome,  \* the argument of the call; createExpressCampaign: with the dates it computed
     campaign   |-> Null,       \* pause / enable / removeCampaign: id of the entry `campaign`
     now        |-> 0,          \* cleanupExpiredCampaigns: `now`; autoCreateFromTrends: the Date.now() of the matching
     cleaned    |-> 0,          \* cleanupExpiredCampaigns: `cleaned`
     visited    |-> {},         \* cleanupExpiredCampaigns: ids the Map iterator has yielded
     before     |-> <<>>,       \* history: the registry when the call was made
     during     |-> {},         \* history: the platform updates other calls awaited when the call was made
     deleted    |-> 0,          \* history: the registry entries the call has deleted
     trends     |-> <<>>,       \* autoCreateFromTrends: `trends`
     store      |-> <<>>,       \* autoCreateFromTrends: the articles matchWithTrends read
     topMatches |-> <<>>,       \* autoCreateFromTrends: `topMatches`
     match      |-> 0,          \* autoCreateFromTrends: position of `match` in topMatches
     results    |-> <<>>]       \* autoCreateFromTrends: `results`

\* the campaigns service has done nothing: an empty article store at time 0
ServiceIdle ==
    /\ articles = <<>>
    /\ clock = 0
    /\ campaigns = <<>>
    /\ task = [c \in Callers |-> IdleTask]
    /\ attempts = 0
    /\ submitted = <<>>
    /\ platform = <<>>

\* no matcher run and no scorer run
MatcherIdle ==
    /\ mtInput = <<>>
    /\ mtOutput = [done |-> FALSE]
    /\ scInput = Null
    /\ scOutput = [done |-> FALSE]

\* no budget creation has been submitted, at millisecond 0
BudgetIdle ==
    /\ msNow = 0
    /\ budgetAttempts = <<>>

\* no createCampaign call has been made
SagaIdle ==
    /\ pc = "idle"
    /\ config = [name |-> "Express: trend - 2026-01-01", datesValid |-> TRUE]
    /\ budgetResourceName = NoHandle
    /\ campaignResourceName = NoHandle
    /\ adGroupResourceName = NoHandle
    /\ error = UndefinedError
    /\ stepError = UndefinedError
    /\ failedStep = Null
    /\ campaignRemoved = FALSE
    /\ rollback = "not invoked"
    /\ outcome = NoOutcome
    /\ trace = <<>>
    /\ inflight = {}
    /\ platformCampaign = "NONE"
    /\ enableCalled = FALSE

SagaInit ==
    /\ pc = "idle"
    /\ config \in Configs
    /\ budgetResourceName = NoHandle
    /\ campaignResourceName = NoHandle
    /\ adGroupResourceName = NoHandle
    /\ error = UndefinedError
    /\ stepError = UndefinedError
    /\ failedStep = Null
    /\ campaignRemoved = FALSE
    /\ rollback = "not invoked"
    /\ outcome = NoOutcome
    /\ trace = <<>>
    /\ inflight = {}
    /\ platformCampaign = "NONE"
    /\ enableCalled = FALSE

ClassifierIdle ==
    /\ clsInput = UndefinedError
    /\ clsOutput = [done |-> FALSE]

Init == SagaInit /\ ClassifierIdle /\ ServiceIdle /\ MatcherIdle /\ BudgetIdle

Next ==
    \/ \E cfg \in Configs : CreateCampaign(cfg)
    \/ \E handle \in BudgetHandles : BudgetCreated(handle)
    \/ \E handle \in CampaignHandles : CampaignCreated(handle)
    \/ \E handle \in AdGroupHandles : AdGroupCreated(handle)
    \/ KeywordsAdded
    \/ AdCreated
    \/ \E payload \in StepPayloads : StepRejected(payload)
    \/ CampaignRemoveOk
    \/ \E payload \in StepPayloads : CampaignRemoveRejected(payload)
    \/ CampaignUpdateOk
    \/ \E payload \in StepPayloads : CampaignUpdateRejected(payload)
    \/ DelayElapsed
    \/ BudgetRemoveOk
    \/ \E payload \in StepPayloads : BudgetRemoveRejected(payload)
    \/ \E applied \in BOOLEAN : EnableCampaign(applied)
    \/ \E applied \in BOOLEAN : PauseCampaign(applied)

Spec == Init /\ [][Next]_vars

\* the platform (or the timer) answers the call createCampaign is suspended on
PlatformAnswers ==
    \/ \E handle \in BudgetHandles : BudgetCreated(handle)
    \/ \E handle \in CampaignHandles : CampaignCreated(handle)
    \/ \E handle \in AdGroupHandles : AdGroupCreated(handle)
    \/ KeywordsAdded
    \/ AdCreated
    \/ \E payload \in StepPayloads : StepRejected(payload)
    \/ CampaignRemoveOk
    \/ \E payload \in StepPayloads : CampaignRemoveRejected(payload)
    \/ CampaignUpdateOk
    \/ \E payload \in StepPayloads : CampaignUpdateRejected(payload)
    \/ DelayElapsed
    \/ BudgetRemoveOk
    \/ \E payload \in StepPayloads : BudgetRemoveRejected(payload)

\* the saga under the assumption that every platform call eventually returns;
\* nothing obliges a client to call
SpecLive == Init /\ [][Next]_vars /\ WF_vars(PlatformAnswers)

(***************************************************************************)
(* Budget names (specification SpecBudget).  createCampaignBudget reads    *)
(* Date.now() and submits `Budget: ${name} (${timestamp})`.  The platform  *)
(* refuses a budget whose name is in use.  A budget creation is a network  *)
(* round trip: its answer arrives at a later millisecond than the one the  *)
(* name was built at.  Attempts may overlap (createCampaign holds no       *)
(* lock).  What follows step 1 is summarised by the fate of the budget:    *)
(* kept (the attempt succeeded), removed (rollback removed it) or orphaned *)
(* (the attempt failed and the budget stayed on the platform).             *)
(***************************************************************************)
\* last millisecond of the clock
MaxMs == 3
\* most budget creations submitted in one behaviour
MaxBudgetAttempts == 3

RequestedNames == {"Express: ai - 2026-01-01", "Express: ev - 2026-01-01"}

\* a budget name that leaves the timestamp out
budgetNameWithoutTimestamp(name, timestamp) == "Budget: " \o name

\* `Budget: ${name} (${timestamp})`
budgetName(name, timestamp) == "Budget: " \o name \o " (" \o ToString(timestamp) \o ")"

\* the attempts whose budget exists on the platform
BudgetsInUse == {i \in DOMAIN budgetAttempts :
                    budgetAttempts[i].state \in {"created", "kept", "orphaned"}}

\* earlier attempts for the same campaign name that failed and left their budget
OrphansOf(name) == {i \in DOMAIN budgetAttempts :
                       /\ budgetAttempts[i].name = name
                       /\ budgetAttempts[i].state = "orphaned"}

\* Date.now() moves on
MsTick ==
    /\ msNow < MaxMs
    /\ msNow' = msNow + 1
    /\ UNCHANGED <<budgetAttempts, sagaVars, clsVars, svcVars, mtVars>>

\* createCampaignBudget up to its await: the name is built and submitted
CallCreateCampaignBudget(name) ==
    /\ Len(budgetAttempts) < MaxBudgetAttempts
    /\ budgetAttempts' = Append(budgetAttempts,
           [name       |-> name,
            timestamp  |-> msNow,
            budgetName |-> budgetName(name, msNow),
            retryOf    |-> OrphansOf(name),
            state      |-> "in flight"])
    /\ UNCHANGED <<msNow, sagaVars, clsVars, svcVars, mtVars>>

\* the platform answers campaignBudgets.create: a name in use is refused
BudgetCreateAnswered(i) ==
    /\ budgetAttempts[i].state = "in flight"
    /\ msNow > budgetAttempts[i].timestamp
    /\ budgetAttempts' = [budgetAttempts EXCEPT ![i].state =
           IF \E k \in BudgetsInUse : budgetAttempts[k].budgetName = budgetAttempts[i].budgetName
           THEN "duplicate" ELSE "created"]
    /\ UNCHANGED <<msNow, sagaVars, clsVars, svcVars, mtVars>>

\* createCampaign after step 1: it succeeds, or fails and rollback removes the
\* budget or leaves it behind
AttemptSettled(i, fate) ==
    /\ budgetAttempts[i].state = "created"
    /\ budgetAttempts' = [budgetAttempts EXCEPT ![i].state = fate]
    /\ UNCHANGED <<msNow, sagaVars, clsVars, svcVars, mtVars>>

BudgetInit == SagaIdle /\ ClassifierIdle /\ ServiceIdle /\ MatcherIdle /\ BudgetIdle

BudgetNext ==
    \/ MsTick
    \/ \E name \in RequestedNames : CallCreateCampaignBudget(name)
    \/ \E i \in DOMAIN budgetAttempts : BudgetCreateAnswered(i)
    \/ \E i \in DOMAIN budgetAttempts, fate \in {"kept", "removed", "orphaned"} :
           AttemptSettled(i, fate)

SpecBudget == BudgetInit /\ [][BudgetNext]_vars

(***************************************************************************)
(* The classifier on its own: createHttpException applied to a payload.    *)
(***************************************************************************)
ClassifierInit ==
    /\ pc = "idle"
    /\ config = [name |-> "Express: trend - 2026-01-01", datesValid |-> TRUE]
    /\ budgetResourceName = NoHandle
    /\ campaignResourceName = NoHandle
    /\ adGroupResourceName = NoHandle
    /\ error = UndefinedError
    /\ stepError = UndefinedError
    /\ failedStep = Null
    /\ campaignRemoved = FALSE
    /\ rollback = "not invoked"
    /\ outcome = NoOutcome
    /\ trace = <<>>
    /\ inflight = {}
    /\ platformCampaign = "NONE"
    /\ enableCalled = FALSE
    /\ clsInput \in Payloads(MaxErrors)
    /\ clsOutput = [done |-> FALSE]
    /\ ServiceIdle
    /\ MatcherIdle
    /\ BudgetIdle

Classify ==
    /\ ~clsOutput.done
    /\ clsOutput' = [done |-> TRUE, exception |-> createHttpException(clsInput)]
    /\ UNCHANGED <<clsInput, sagaVars, svcVars, mtVars, bdgVars>>

SpecClassifier == ClassifierInit /\ [][Classify]_vars

(***************************************************************************)
(* Strings of the matcher.  A string is the sequence of its characters, so *)
(* that toLowerCase, split and includes are computed and not assumed.  The *)
(* alphabet has two letters in both cases and the blank.                   *)
(***************************************************************************)
Blank == " "

\* String.prototype.toLowerCase
LowerChar(c) == IF c = "A" THEN "a" ELSE IF c = "B" THEN "b" ELSE c
toLowerCase(s) == [i \in 1..Len(s) |-> LowerChar(s[i])]

\* String.prototype.includes: the empty string is included in every string
includes(s, t) == \E k \in 0..(Len(s) - Len(t)) : SubSeq(s, k + 1, k + Len(t)) = t

\* String.prototype.split(/\s+/): a leading or trailing blank run yields an empty
\* token, and the empty string splits into one empty token
RECURSIVE split(_)
split(s) ==
    LET blanks == {i \in 1..Len(s) : s[i] = Blank}
    IN  IF blanks = {} THEN <<s>>
        ELSE LET first == CHOOSE i \in blanks : \A j \in blanks : i <= j
                 after == {i \in first..Len(s) : \A j \in first..i : s[j] = Blank}
                 last == CHOOSE i \in after : \A j \in after : j <= i
             IN  <<SubSeq(s, 1, first - 1)>> \o split(SubSeq(s, last + 1, Len(s)))

(***************************************************************************)
(* ArticlesService.calculateRelevanceScore and matchWithTrends.  `now` is  *)
(* Date.now() and publishedAt the article's creation time, both in hours.  *)
(***************************************************************************)
TitleWeight == 3
KeywordWeight == 2
RelatedWeight == 1
RecentHours == 24
RecentBonus == 2
FreshHours == 72
FreshBonus == 1

\* a bonus for the articles of the last 24 hours only
recencyBonusLastDay(hoursSincePublished) ==
    IF hoursSincePublished < RecentHours THEN RecentBonus ELSE 0

\* the bonus for recent articles: 2 under 24 hours, 1 under 72 hours
recencyBonus(hoursSincePublished) ==
    IF hoursSincePublished < RecentHours THEN RecentBonus
    ELSE IF hoursSincePublished < FreshHours THEN FreshBonus ELSE 0

\* a scorer that only asks whether the article keyword contains the other string
calculateRelevanceScoreOneWay(trend, article, now) ==
    LET trendWords == split(toLowerCase(trend.keyword))
        trendRelated == [i \in 1..Len(trend.relatedQueries) |->
                            toLowerCase(trend.relatedQueries[i])]
        titleLower == toLowerCase(article.title)
        keywordLower == [k \in 1..Len(article.keywords) |-> toLowerCase(article.keywords[k])]
        inTitle == {i \in 1..Len(trendWords) : includes(titleLower, trendWords[i])}
        direct == {<<k, i>> \in (1..Len(keywordLower)) \X (1..Len(trendWords)) :
                      includes(keywordLower[k], trendWords[i])}
        related == {<<k, i>> \in (1..Len(keywordLower)) \X (1..Len(trendRelated)) :
                      includes(keywordLower[k], trendRelated[i])}
        hoursSincePublished == now - article.publishedAt
    IN  TitleWeight * Cardinality(inTitle)
        + KeywordWeight * Cardinality(direct)
        + RelatedWeight * Cardinality(related)
        + recencyBonus(hoursSincePublished)

calculateRelevanceScore(trend, article, now) ==
    LET trendWords == split(toLowerCase(trend.keyword))
        trendRelated == [i \in 1..Len(trend.relatedQueries) |->
                            toLowerCase(trend.relatedQueries[i])]
        titleLower == toLowerCase(article.title)
        keywordLower == [k \in 1..Len(article.keywords) |-> toLowerCase(article.keywords[k])]
        inTitle == {i \in 1..Len(trendWords) : includes(titleLower, trendWords[i])}
        direct == {<<k, i>> \in (1..Len(keywordLower)) \X (1..Len(trendWords)) :
                      \/ includes(keywordLower[k], trendWords[i])
                      \/ includes(trendWords[i], keywordLower[k])}
        related == {<<k, i>> \in (1..Len(keywordLower)) \X (1..Len(trendRelated)) :
                      \/ includes(keywordLower[k], trendRelated[i])
                      \/ includes(trendRelated[i], keywordLower[k])}
        hoursSincePublished == now - article.publishedAt
    IN  TitleWeight * Cardinality(inTitle)
        + KeywordWeight * Cardinality(direct)
        + RelatedWeight * Cardinality(related)
        + recencyBonus(hoursSincePublished)

\* a TrendMatch: trend and article are references, the positions of the objects in
\* the trend list and in the article store
TrendMatch(t, a, score) == [trend |-> t, article |-> a, score |-> score]

\* a sort that moves a match in front of the matches of equal score
insertBeforeEqual(sorted, m) ==
    LET k == Cardinality({i \in 1..Len(sorted) : sorted[i].score > m.score})
    IN  SubSeq(sorted, 1, k) \o <<m>> \o SubSeq(sorted, k + 1, Len(sorted))

\* Array.prototype.sort with (a, b) => b.score - a.score is stable: a match goes
\* behind every match already placed whose score is not smaller
insertByScore(sorted, m) ==
    LET k == Cardinality({i \in 1..Len(sorted) : sorted[i].score >= m.score})
    IN  SubSeq(sorted, 1, k) \o <<m>> \o SubSeq(sorted, k + 1, Len(sorted))

RECURSIVE sortByScore(_)
sortByScore(matches) ==
    IF matches = <<>> THEN <<>>
    ELSE insertByScore(sortByScore(SubSeq(matches, 1, Len(matches) - 1)),
                       matches[Len(matches)])

\* the (trend, article) pairs in the order of the nested loops
Pairs(trendList, store) ==
    [p \in 1..(Len(trendList) * Len(store)) |->
        <<((p - 1) \div Len(store)) + 1, ((p - 1) % Len(store)) + 1>>]

\* a matcher that keeps the pairs of score 0
matchWithTrendsKeepAll(trendList, store, now) ==
    LET pairs == Pairs(trendList, store)
        scored == [p \in 1..Len(pairs) |->
                     TrendMatch(pairs[p][1], pairs[p][2],
                                calculateRelevanceScore(trendList[pairs[p][1]],
                                                        store[pairs[p][2]], now))]
    IN  sortByScore(scored)

matchWithTrends(trendList, store, now) ==
    LET pairs == Pairs(trendList, store)
        scored == [p \in 1..Len(pairs) |->
                     TrendMatch(pairs[p][1], pairs[p][2],
                                calculateRelevanceScore(trendList[pairs[p][1]],
                                                        store[pairs[p][2]], now))]
        positive(m) == m.score > 0
    IN  sortByScore(SelectSeq(scored, positive))

(***************************************************************************)
(* The matcher on its own: matchWithTrends applied to a trend list and an  *)
(* article store.                                                          *)
(***************************************************************************)
\* longest trend list and largest article store of a matcher run
MaxTrends == 2
MaxArticles == 2

TrendingSearch(keyword, relatedQueries) ==
    [keyword |-> keyword, relatedQueries |-> relatedQueries]
Article(id, title, keywords, publishedAt) ==
    [id |-> id, title |-> title, keywords |-> keywords, publishedAt |-> publishedAt]

\* the time of a matcher run, late enough for an article to be older than FreshHours
MatchTime == FreshHours

MatchTrends ==
    { TrendingSearch(<<"a">>, <<>>),
      TrendingSearch(<<"B", " ", "a">>, << <<"b">> >>),
      TrendingSearch(<<"b", "b">>, <<>>) }

MatchArticles ==
    { Article("article-1", <<"A", "b">>, << <<"a">> >>, 0),
      Article("article-2", <<"b">>, << <<"b">>, <<"a", "b">> >>, 0),
      Article("article-3", <<"a">>, <<>>, MatchTime),
      Article("article-4", <<"a">>, <<>>, MatchTime - RecentHours) }

MatcherInit ==
    /\ mtInput \in SeqsUpTo(MatchTrends, MaxTrends)
    /\ articles \in SeqsUpTo(MatchArticles, MaxArticles)
    /\ clock = MatchTime
    /\ mtOutput = [done |-> FALSE]
    /\ scInput = Null
    /\ scOutput = [done |-> FALSE]
    /\ campaigns = <<>>
    /\ task = [c \in Callers |-> IdleTask]
    /\ attempts = 0
    /\ submitted = <<>>
    /\ platform = <<>>
    /\ SagaIdle
    /\ ClassifierIdle
    /\ BudgetIdle

\* matchWithTrends(trends) is called and returns
MatchWithTrends ==
    /\ ~mtOutput.done
    /\ mtOutput' = [done |-> TRUE, matches |-> matchWithTrends(mtInput, articles, clock)]
    /\ UNCHANGED <<mtInput, scInput, scOutput, sagaVars, clsVars, svcVars, bdgVars>>

SpecMatcher == MatcherInit /\ [][MatchWithTrends]_vars

(***************************************************************************)
(* The scorer on its own: calculateRelevanceScore applied to one trend and *)
(* one article.  The trend keyword ranges over every string of up to       *)
(* MaxChars characters; the other texts over samples that hold the empty   *)
(* string, the empty list, mixed case and strings that contain one another.*)
(***************************************************************************)
\* longest trend keyword of a scorer run
MaxChars == 2

Alphabet == {"a", "b", "A", Blank}
Strings(n) == UNION {[1..k -> Alphabet] : k \in 0..n}

RelatedSamples == { <<>>, << <<>> >>, << <<"b">> >>, << <<"B">>, <<"a", "b">> >> }
TitleSamples == { <<>>, <<"a">>, <<"A", "b">>, <<"b", " ", "a">> }
KeywordSamples == { <<>>, << <<>> >>, << <<"a">> >>, << <<"B">>, <<"a", "b">> >> }

\* publication times around the two thresholds of the recency bonus, the scorer
\* running at MatchTime: ages 72, 71, 24, 23 and 0 hours
PublishedSamples ==
    {0, 1, MatchTime - RecentHours, MatchTime - RecentHours + 1, MatchTime}

ScorerInit ==
    /\ scInput \in [trend : {TrendingSearch(k, r) : k \in Strings(MaxChars),
                                                     r \in RelatedSamples},
                     article : {Article("article-1", t, k, p) : t \in TitleSamples,
                                   k \in KeywordSamples, p \in PublishedSamples},
                     now : {MatchTime}]
    /\ scOutput = [done |-> FALSE]
    /\ mtInput = <<>>
    /\ mtOutput = [done |-> FALSE]
    /\ ServiceIdle
    /\ SagaIdle
    /\ ClassifierIdle
    /\ BudgetIdle

\* calculateRelevanceScore(trend, article) is called and returns
CalculateRelevanceScore ==
    /\ ~scOutput.done
    /\ scOutput' = [done |-> TRUE,
                    score |-> calculateRelevanceScore(scInput.trend, scInput.article,
                                                      scInput.now)]
    /\ UNCHANGED <<scInput, mtInput, mtOutput, sagaVars, clsVars, svcVars, bdgVars>>

SpecScorer == ScorerInit /\ [][CalculateRelevanceScore]_vars

(***************************************************************************)
(* The campaigns service: CampaignsService over its registry, the article  *)
(* store, the trends source and GoogleAdsService.  A call of               *)
(* googleAdsService.createCampaign is one awaited operation here: it       *)
(* settles with a CampaignResult for a fresh campaign or with the error    *)
(* the saga rejects with.                                                  *)
(***************************************************************************)
\* most googleAdsService.createCampaign calls of a run, longest clock advance (in
\* days) and largest maxCampaigns argument
MaxAttempts == 3
MaxTicks == 2
MaxBatch == 2

DefaultDurationHours == 24
HoursPerDay == 24
PacingDelayMs == 2000

\* what a CampaignsService call awaits besides the platform calls of the saga
Provision == "googleAdsService.createCampaign"
DailyTrends == "googleTrends.dailyTrends"
Pacing == "delay"

\* an entry of a call's log
Ev(ev, call, detail) == [ev |-> ev, call |-> call, detail |-> detail]

\* Map.prototype.has, get, set and delete on the registry; set keeps the place of a
\* key that is present, delete of an absent key changes nothing
has(reg, id) == \E i \in 1..Len(reg) : reg[i].id = id
get(reg, id) == reg[CHOOSE i \in 1..Len(reg) : reg[i].id = id]
set(reg, entry) ==
    IF has(reg, entry.id)
    THEN [i \in 1..Len(reg) |-> IF reg[i].id = entry.id THEN entry ELSE reg[i]]
    ELSE Append(reg, entry)
delete(reg, id) ==
    LET kept(e) == e.id # id
    IN  SelectSeq(reg, kept)

\* an assignment that marks an entry past its expiry as EXPIRED
setStatusOrExpire(reg, id, status) ==
    [i \in 1..Len(reg) |-> IF reg[i].id = id
                           THEN [reg[i] EXCEPT !.status = IF reg[i].expiresAt < clock
                                                          THEN "EXPIRED" ELSE status]
                           ELSE reg[i]]

\* campaign.status = status on the StoredCampaign object of that id; the registry
\* shows the assignment if it still holds the object
setStatus(reg, id, status) ==
    [i \in 1..Len(reg) |-> IF reg[i].id = id THEN [reg[i] EXCEPT !.status = status]
                           ELSE reg[i]]

\* ArticlesService.findOne
findOne(store, id) == {store[i] : i \in {j \in 1..Len(store) : store[j].id = id}}

\* the resource name the platform gives the campaign of the n-th create call
CampaignHandle(n) == <<"customers", "1", "campaigns", ToString(n)>>
AdGroupHandle(n) == <<"customers", "1", "adGroups", ToString(n)>>

\* startDate.toISOString().split('T')[0]: the calendar day of an instant
ISODate(t) == t \div HoursPerDay

\* `Express: ${dto.trendKeyword} - ${date}`
campaignName(trendKeyword, startDate) ==
    [prefix |-> "Express: ", keyword |-> trendKeyword, date |-> ISODate(startDate)]

\* the locals createExpressCampaign computes before it calls the platform;
\* durationHours 0 stands for an omitted duration
ExpressLocals(articleId, trendKeyword, durationHours, n) ==
    [articleId    |-> articleId,
     trendKeyword |-> trendKeyword,
     name         |-> campaignName(trendKeyword, clock),
     createdAt    |-> clock,
     expiresAt    |-> clock + (IF durationHours # 0 THEN durationHours
                               ELSE DefaultDurationHours),
     attempt      |-> n]

\* the entry createExpressCampaign stores
StoredCampaign(locals, result) ==
    [id           |-> result.campaignId,
     articleId    |-> locals.articleId,
     trendKeyword |-> locals.trendKeyword,
     result       |-> result,
     createdAt    |-> locals.createdAt,
     expiresAt    |-> locals.expiresAt,
     status       |-> "ACTIVE"]

\* the errors a CampaignsService call rejects with
NotFoundException(id) == [name |-> "NotFoundException", message |-> "Article not found", id |-> id]
SagaHttpException == [name |-> "HttpException", message |-> "classified"]
SagaTypeError == [name |-> "TypeError", message |-> "thrown by the saga"]
PropertyOfUndefined == [name |-> "TypeError", message |-> "Cannot read properties of undefined"]
ProvisionErrors == {SagaHttpException, SagaTypeError}
TrendsError == [name |-> "Error", message |-> "trends unavailable"]

\* what the platform rejects campaigns.update with, as far as the callers' catch
\* blocks can tell: undefined, or an object
UpdateRejections ==
    { UndefinedError,
      Payload("object", TRUE, TRUE,
              <<SubError(Code("quota_error", "RESOURCE_EXHAUSTED"), "sub-error message",
                         "absent")>>, Undefined, "req-1") }

\* the platform once the campaign of that resource name has that status
withStatus(pf, resourceName, status) == (resourceName :> status) @@ pf

\* the platform has applied the update the call awaits and its answer is under way
Applied(t) == t.log # <<>> /\ t.log[Len(t.log)].ev = "applied"

\* the update the call awaits: the operation customer.campaigns.update was given
\* (the last entry of the log is the call, or the platform applying it)
Requested(t) == t.log[Len(t.log)].detail

\* a call settles
Returns(t, value) == [t EXCEPT !.pc = "returned", !.outcome = [kind |-> "returned", value |-> value]]
Rejects(t, err) == [t EXCEPT !.pc = "rejected", !.outcome = [kind |-> "rejected", error |-> err]]

\* a caller may call when it has no call in progress
Callable(c) == task[c].pc \in {"idle", "returned", "rejected"}
\* the updates of the registry's campaigns that calls are suspended on: method and id
Suspensions == {<<task[c].op, task[c].campaign>> :
                   c \in {x \in Callers : task[x].pc = CampaignUpdate}}
NewTask(op) == [IdleTask EXCEPT !.op = op, !.before = campaigns, !.during = Suspensions]

(***************************************************************************)
(* createCampaign and createExpressCampaign.                               *)
(***************************************************************************)
\* googleAdsService.createCampaign is called with `name`
Provisioning(c, t, name) ==
    /\ attempts < MaxAttempts
    /\ attempts' = attempts + 1
    /\ submitted' = Append(submitted, name)
    /\ task' = [task EXCEPT ![c] =
                  [t EXCEPT !.pc = Provision,
                            !.log = Append(t.log, Ev("call", Provision, name))]]

\* CampaignsService.createCampaign(dto): the name is the caller's
CallCreateCampaign(c, name) ==
    /\ Callable(c)
    /\ Provisioning(c, [NewTask("createCampaign") EXCEPT
                           !.dto = [name |-> name, attempt |-> attempts + 1]], name)
    /\ UNCHANGED <<nonServiceVars, platform, articles, clock, campaigns>>

\* a createExpressCampaign that looks the article up after it called the platform
CallCreateExpressCampaignLateLookup(c, articleId, trendKeyword, durationHours) ==
    /\ Callable(c)
    /\ IF findOne(articles, articleId) = {}
       THEN /\ task' = [task EXCEPT ![c] =
                          Rejects([NewTask("createExpressCampaign") EXCEPT
                                      !.log = <<Ev("call", Provision, articleId),
                                                Ev("throw", "NotFoundException", articleId)>>],
                                  NotFoundException(articleId))]
            /\ UNCHANGED <<nonServiceVars, attempts, submitted>>
       ELSE LET locals == ExpressLocals(articleId, trendKeyword, durationHours,
                                        attempts + 1)
            IN  Provisioning(c, [NewTask("createExpressCampaign") EXCEPT !.dto = locals],
                             locals.name)
    /\ UNCHANGED <<nonServiceVars, platform, articles, clock, campaigns>>

\* CampaignsService.createExpressCampaign(dto)
CallCreateExpressCampaign(c, articleId, trendKeyword, durationHours) ==
    /\ Callable(c)
    /\ IF findOne(articles, articleId) = {}
       THEN /\ task' = [task EXCEPT ![c] =
                          Rejects([NewTask("createExpressCampaign") EXCEPT
                                      !.log = <<Ev("throw", "NotFoundException", articleId)>>],
                                  NotFoundException(articleId))]
            /\ UNCHANGED <<nonServiceVars, attempts, submitted>>
       ELSE LET locals == ExpressLocals(articleId, trendKeyword, durationHours,
                                        attempts + 1)
            IN  Provisioning(c, [NewTask("createExpressCampaign") EXCEPT !.dto = locals],
                             locals.name)
    /\ UNCHANGED <<nonServiceVars, platform, articles, clock, campaigns>>

(***************************************************************************)
(* autoCreateFromTrends.                                                   *)
(***************************************************************************)
\* Array.prototype.slice(0, end): a negative end counts from the end of the array
slice(s, end) ==
    LET last == IF end < 0 THEN Len(s) + end ELSE end
    IN  SubSeq(s, 1, IF last < 0 THEN 0 ELSE IF last > Len(s) THEN Len(s) ELSE last)

\* the trend lists getDailyTrends answers with in the service runs
TrendLists == { <<>>, <<TrendingSearch(<<"a">>, <<>>)>>,
                <<TrendingSearch(<<"b">>, <<>>), TrendingSearch(<<"a">>, <<>>)>> }

\* the most attempts a call with this maxCampaigns can make on the current store
MostAttempts(maxCampaigns) ==
    LET longest == CHOOSE n \in {Len(l) : l \in TrendLists} :
                       \A l \in TrendLists : Len(l) <= n
    IN  Len(slice([i \in 1..(longest * Len(articles)) |-> i], maxCampaigns))

\* the article of the k-th top match
MatchArticle(t, k) == t.store[t.topMatches[k].article]
MatchTrend(t, k) == t.trends[t.topMatches[k].trend]

\* the for loop from match k on, up to the next await: a match whose article has
\* left the store throws NotFoundException into the loop's catch, the first other
\* match calls the platform, and after the last match the results are returned
AutoLoop(c, t, k) ==
    LET found == {i \in k..Len(t.topMatches) : findOne(articles, MatchArticle(t, i).id) # {}}
        j == IF found = {} THEN Len(t.topMatches) + 1
             ELSE CHOOSE i \in found : \A h \in found : i <= h
        missed == [i \in 1..(j - k) |->
                      Ev("throw", "NotFoundException", MatchArticle(t, k + i - 1).id)]
        looped == [t EXCEPT !.log = t.log \o missed]
    IN  IF j > Len(t.topMatches)
        THEN /\ task' = [task EXCEPT ![c] = Returns(looped, looped.results)]
             /\ UNCHANGED <<nonServiceVars, attempts, submitted>>
        ELSE LET locals == ExpressLocals(MatchArticle(t, j).id, MatchTrend(t, j).keyword,
                                         0, attempts + 1)
             IN  Provisioning(c, [looped EXCEPT
                                     !.match = j,
                                     !.dto = [maxCampaigns |-> t.dto.maxCampaigns] @@ locals],
                              locals.name)

\* CampaignsService.autoCreateFromTrends(geo, maxCampaigns)
CallAutoCreateFromTrends(c, maxCampaigns) ==
    /\ Callable(c)
    /\ attempts + MostAttempts(maxCampaigns) <= MaxAttempts
    /\ task' = [task EXCEPT ![c] =
                  [NewTask("autoCreateFromTrends") EXCEPT
                      !.pc = DailyTrends,
                      !.dto = [maxCampaigns |-> maxCampaigns],
                      !.log = <<Ev("call", DailyTrends, "geo")>>]]
    /\ UNCHANGED <<nonServiceVars, platform, articles, clock, campaigns, attempts, submitted>>

\* getDailyTrends resolved: the matches are ranked and the loop starts
TrendsAnswered(c, trendList) ==
    /\ task[c].pc = DailyTrends
    /\ LET matches == matchWithTrends(trendList, articles, clock)
       IN  AutoLoop(c, [task[c] EXCEPT !.trends = trendList,
                                       !.store = articles,
                                       !.now = clock,
                                       !.topMatches = slice(matches, task[c].dto.maxCampaigns),
                                       !.log = Append(@, Ev("ok", DailyTrends, "geo"))], 1)
    /\ UNCHANGED <<nonServiceVars, platform, articles, clock, campaigns>>

\* getDailyTrends rejected: autoCreateFromTrends has no handler around it
TrendsRejected(c) ==
    /\ task[c].pc = DailyTrends
    /\ task' = [task EXCEPT ![c] =
                  Rejects([task[c] EXCEPT !.log = Append(@, Ev("rejected", DailyTrends, "geo"))],
                          TrendsError)]
    /\ UNCHANGED <<nonServiceVars, platform, articles, clock, campaigns, attempts, submitted>>

(***************************************************************************)
(* The answers of googleAdsService.createCampaign.                         *)
(***************************************************************************)
\* provisioning succeeded: createCampaign returns the result, createExpressCampaign
\* stores it first, and autoCreateFromTrends then pushes it and awaits the delay
Provisioned(c) ==
    /\ task[c].pc = Provision
    /\ LET n == task[c].dto.attempt
           result == CampaignResult(CampaignHandle(n), AdGroupHandle(n))
           t == [task[c] EXCEPT !.log = Append(@, Ev("ok", Provision, result.campaignId))]
       IN  /\ campaigns' = IF t.op = "createCampaign" THEN campaigns
                           ELSE set(campaigns, StoredCampaign(t.dto, result))
           /\ task' = [task EXCEPT ![c] =
                         IF t.op = "autoCreateFromTrends"
                         THEN [t EXCEPT !.results = Append(@, result),
                                        !.pc = Pacing,
                                        !.log = Append(@, Ev("call", Pacing, PacingDelayMs))]
                         ELSE Returns(t, result)]
           /\ platform' = withStatus(platform, result.resourceName, "PAUSED")
    /\ UNCHANGED <<nonServiceVars, articles, clock, attempts, submitted>>

\* an autoCreateFromTrends without the catch around the attempt: the first failure
\* rejects the call
ProvisioningRejectedAborts(c, err) ==
    /\ task[c].pc = Provision
    /\ LET t == [task[c] EXCEPT !.log = Append(@, Ev("rejected", Provision, err.name))]
       IN  /\ task' = [task EXCEPT ![c] = Rejects(t, err)]
           /\ UNCHANGED <<attempts, submitted>>
    /\ UNCHANGED <<nonServiceVars, platform, articles, clock, campaigns>>

\* a createExpressCampaign that stores the entry before the saga has answered: a
\* rejected provisioning leaves the entry in the registry
ProvisioningRejectedAfterSet(c, err) ==
    /\ task[c].pc = Provision
    /\ LET t == [task[c] EXCEPT !.log = Append(@, Ev("rejected", Provision, err.name))]
           n == t.dto.attempt
       IN  /\ campaigns' = IF t.op = "createCampaign" THEN campaigns
                           ELSE set(campaigns,
                                    StoredCampaign(t.dto, CampaignResult(CampaignHandle(n),
                                                                         AdGroupHandle(n))))
           /\ IF t.op = "autoCreateFromTrends"
              THEN AutoLoop(c, t, t.match + 1)
              ELSE /\ task' = [task EXCEPT ![c] = Rejects(t, err)]
                   /\ UNCHANGED <<nonServiceVars, attempts, submitted>>
    /\ UNCHANGED <<nonServiceVars, platform, articles, clock>>

\* the saga rejected: createCampaign and createExpressCampaign reject with the same
\* error; autoCreateFromTrends catches it, logs error.message and goes on
ProvisioningRejected(c, err) ==
    /\ task[c].pc = Provision
    /\ LET t == [task[c] EXCEPT !.log = Append(@, Ev("rejected", Provision, err.name))]
       IN  IF t.op = "autoCreateFromTrends"
           THEN AutoLoop(c, t, t.match + 1)
           ELSE /\ task' = [task EXCEPT ![c] = Rejects(t, err)]
                /\ UNCHANGED <<nonServiceVars, attempts, submitted>>
    /\ UNCHANGED <<nonServiceVars, platform, articles, clock, campaigns>>

\* the pacing delay elapsed
PacingElapsed(c) ==
    /\ task[c].pc = Pacing
    /\ AutoLoop(c, [task[c] EXCEPT !.log = Append(@, Ev("ok", Pacing, PacingDelayMs))],
                task[c].match + 1)
    /\ UNCHANGED <<nonServiceVars, platform, articles, clock, campaigns>>

(***************************************************************************)
(* pauseCampaign, enableCampaign, removeCampaign, cleanupExpiredCampaigns. *)
(***************************************************************************)
\* an update addressed by the short campaign id
UpdatingById(t, id, status) ==
    [t EXCEPT !.pc = CampaignUpdate,
              !.campaign = id,
              !.log = Append(@, Ev("call", CampaignUpdate,
                                   [resource_name |-> <<id>>, status |-> status]))]

\* googleAdsService.pauseCampaign / enableCampaign / removeCampaign: one
\* customer.campaigns.update of the campaign's status
Updating(t, id, status) ==
    [t EXCEPT !.pc = CampaignUpdate,
              !.campaign = id,
              !.log = Append(@, Ev("call", CampaignUpdate,
                                   [resource_name |-> get(campaigns, id).result.resourceName,
                                    status |-> status]))]

\* pauseCampaign(id), enableCampaign(id), removeCampaign(id): nothing for an id the
\* registry does not hold
CallOnCampaign(c, op, id, status) ==
    /\ Callable(c)
    /\ LET t == [NewTask(op) EXCEPT !.dto = [id |-> id]]
       IN  task' = [task EXCEPT ![c] =
                      IF has(campaigns, id) THEN Updating(t, id, status)
                      ELSE Returns(t, Undefined)]
    /\ UNCHANGED <<nonServiceVars, platform, articles, clock, campaigns, attempts, submitted>>

CallPauseCampaign(c, id) == CallOnCampaign(c, "pauseCampaign", id, "PAUSED")
CallEnableCampaign(c, id) == CallOnCampaign(c, "enableCampaign", id, "ENABLED")
CallRemoveCampaign(c, id) == CallOnCampaign(c, "removeCampaign", id, "REMOVED")

\* a sweep that removes every expired entry, whatever its status
SweepLoopAnyStatus(t, reg) ==
    LET rest == {i \in 1..Len(reg) : reg[i].id \notin t.visited}
        due == {i \in rest : reg[i].expiresAt < t.now}
    IN  IF due = {}
        THEN Returns([t EXCEPT !.visited = @ \cup {reg[i].id : i \in rest}], t.cleaned)
        ELSE LET j == CHOOSE i \in due : \A h \in due : i <= h
             IN  [t EXCEPT !.visited = @ \cup {reg[i].id : i \in {h \in rest : h <= j}},
                           !.pc = CampaignUpdate,
                           !.campaign = reg[j].id,
                           !.log = Append(@, Ev("call", CampaignUpdate,
                                                [resource_name |-> reg[j].result.resourceName,
                                                 status |-> "REMOVED"]))]

\* the for loop of cleanupExpiredCampaigns over the entries the iterator has not
\* yielded, up to the next await: the first expired ACTIVE entry is removed
\* through removeCampaign, and after the last entry `cleaned` is returned
SweepLoop(t, reg) ==
    LET rest == {i \in 1..Len(reg) : reg[i].id \notin t.visited}
        due == {i \in rest : reg[i].expiresAt < t.now /\ reg[i].status = "ACTIVE"}
    IN  IF due = {}
        THEN Returns([t EXCEPT !.visited = @ \cup {reg[i].id : i \in rest}], t.cleaned)
        ELSE LET j == CHOOSE i \in due : \A h \in due : i <= h
             IN  [t EXCEPT !.visited = @ \cup {reg[i].id : i \in {h \in rest : h <= j}},
                           !.pc = CampaignUpdate,
                           !.campaign = reg[j].id,
                           !.log = Append(@, Ev("call", CampaignUpdate,
                                                [resource_name |-> reg[j].result.resourceName,
                                                 status |-> "REMOVED"]))]

\* cleanupExpiredCampaigns()
CallCleanupExpiredCampaigns(c) ==
    /\ Callable(c)
    /\ task' = [task EXCEPT ![c] =
                  SweepLoop([NewTask("cleanupExpiredCampaigns") EXCEPT !.now = clock],
                            campaigns)]
    /\ UNCHANGED <<nonServiceVars, platform, articles, clock, campaigns, attempts, submitted>>

\* the platform applies the update a call awaits; the answer is still to arrive
UpdateApplied(c) ==
    /\ task[c].pc = CampaignUpdate
    /\ ~Applied(task[c])
    /\ LET op == Requested(task[c])
       IN  /\ platform' = withStatus(platform, op.resource_name, op.status)
           /\ task' = [task EXCEPT ![c].log = Append(@, Ev("applied", CampaignUpdate, op))]
    /\ UNCHANGED <<nonServiceVars, articles, clock, campaigns, attempts, submitted>>

\* customer.campaigns.update resolved: the platform has applied the update (just
\* now, unless it did before) and the call goes on
UpdateOk(c) ==
    /\ task[c].pc = CampaignUpdate
    /\ platform' = IF Applied(task[c]) THEN platform
                   ELSE withStatus(platform, Requested(task[c]).resource_name,
                                   Requested(task[c]).status)
    /\ LET t == [task[c] EXCEPT !.log = Append(@, Ev("ok", CampaignUpdate, task[c].campaign))]
           id == t.campaign
       IN  CASE t.op = "pauseCampaign" ->
                   /\ campaigns' = setStatus(campaigns, id, "PAUSED")
                   /\ task' = [task EXCEPT ![c] = Returns(t, Undefined)]
             [] t.op = "enableCampaign" ->
                   /\ campaigns' = setStatus(campaigns, id, "ACTIVE")
                   /\ task' = [task EXCEPT ![c] = Returns(t, Undefined)]
             [] t.op = "removeCampaign" ->
                   /\ campaigns' = delete(campaigns, id)
                   /\ task' = [task EXCEPT ![c] = Returns(t, Undefined)]
             [] t.op = "cleanupExpiredCampaigns" ->
                   /\ campaigns' = delete(campaigns, id)
                   /\ task' = [task EXCEPT ![c] =
                                 SweepLoop([t EXCEPT !.cleaned = @ + 1,
                                                     !.deleted = IF has(campaigns, id)
                                                                 THEN @ + 1 ELSE @],
                                           delete(campaigns, id))]
    /\ UNCHANGED <<nonServiceVars, articles, clock, attempts, submitted>>

\* a removeCampaign that deletes the entry before it awaits the platform: a
\* rejected removal leaves the registry without the entry
UpdateRejectedAfterDelete(c, err) ==
    /\ task[c].pc = CampaignUpdate
    /\ ~Applied(task[c])
    /\ LET t == [task[c] EXCEPT !.log = Append(@, Ev("rejected", CampaignUpdate,
                                                     task[c].campaign))]
       IN  /\ task' = [task EXCEPT ![c] =
                         IF t.op # "cleanupExpiredCampaigns" THEN Rejects(t, err)
                         ELSE IF err.kind = "undefined" THEN Rejects(t, PropertyOfUndefined)
                         ELSE SweepLoop(t, campaigns)]
           /\ campaigns' = IF t.op = "removeCampaign" THEN delete(campaigns, t.campaign)
                           ELSE campaigns
    /\ UNCHANGED <<nonServiceVars, platform, articles, clock, attempts, submitted>>

\* a pauseCampaign / enableCampaign that assigns the status before it awaits the
\* platform: a rejected update leaves the registry with the new status
UpdateRejectedAfterAssign(c, err) ==
    /\ task[c].pc = CampaignUpdate
    /\ ~Applied(task[c])
    /\ LET t == [task[c] EXCEPT !.log = Append(@, Ev("rejected", CampaignUpdate,
                                                     task[c].campaign))]
       IN  /\ task' = [task EXCEPT ![c] =
                         IF t.op # "cleanupExpiredCampaigns" THEN Rejects(t, err)
                         ELSE IF err.kind = "undefined" THEN Rejects(t, PropertyOfUndefined)
                         ELSE SweepLoop(t, campaigns)]
           /\ campaigns' = CASE t.op = "pauseCampaign" -> setStatus(campaigns, t.campaign, "PAUSED")
                             [] t.op = "enableCampaign" -> setStatus(campaigns, t.campaign, "ACTIVE")
                             [] OTHER -> campaigns
    /\ UNCHANGED <<nonServiceVars, platform, articles, clock, attempts, submitted>>

\* customer.campaigns.update rejected (the platform applied nothing): pause, enable
\* and removeCampaign reject with the platform's error; the sweep's catch reads error.message, which throws a
\* TypeError when the error is undefined or null
UpdateRejected(c, err) ==
    /\ task[c].pc = CampaignUpdate
    /\ ~Applied(task[c])
    /\ LET t == [task[c] EXCEPT !.log = Append(@, Ev("rejected", CampaignUpdate,
                                                     task[c].campaign))]
       IN  task' = [task EXCEPT ![c] =
                      IF t.op # "cleanupExpiredCampaigns" THEN Rejects(t, err)
                      ELSE IF err.kind = "undefined" THEN Rejects(t, PropertyOfUndefined)
                      ELSE SweepLoop(t, campaigns)]
    /\ UNCHANGED <<nonServiceVars, platform, articles, clock, campaigns, attempts, submitted>>

(***************************************************************************)
(* The environment of the service, and its specification.                  *)
(***************************************************************************)
\* a day passes
Tick ==
    /\ clock < MaxTicks * HoursPerDay
    /\ clock' = clock + HoursPerDay
    /\ UNCHANGED <<nonServiceVars, platform, articles, campaigns, task, attempts, submitted>>

\* ArticlesService.remove(id), called through the articles API
RemoveArticle(id) ==
    /\ findOne(articles, id) # {}
    /\ articles' = LET kept(a) == a.id # id IN SelectSeq(articles, kept)
    /\ UNCHANGED <<nonServiceVars, platform, clock, campaigns, task, attempts, submitted>>

\* the article store, the arguments and the trends of the service runs
ServiceCatalog ==
    << Article("article-1", <<"a">>, << <<"a">> >>, 0),
       Article("article-2", <<"b">>, <<>>, 0) >>
ArticleIds == {"article-1", "article-2"}
TrendKeywords == {<<"a">>}
DurationHours == {0, 2 * DefaultDurationHours}
ExplicitNames == {[prefix |-> "", keyword |-> k, date |-> 0] : k \in {<<"a">>, <<"b">>}}
CampaignIds == {ToString(n) : n \in 1..MaxAttempts}

\* the `max` query parameter is parseInt of any string the client sends (absent,
\* it is 3): the batch sizes up to MaxBatch, and a negative one
BatchSizes == {0 - 1} \cup 1..MaxBatch

ServiceInit ==
    /\ articles = ServiceCatalog
    /\ clock = 0
    /\ campaigns = <<>>
    /\ task = [c \in Callers |-> IdleTask]
    /\ attempts = 0
    /\ submitted = <<>>
    /\ platform = <<>>
    /\ SagaIdle
    /\ ClassifierIdle
    /\ MatcherIdle
    /\ BudgetIdle

\* creation through the service: what caller c may call and be answered
CreationNext(c) ==
    \/ \E name \in ExplicitNames : CallCreateCampaign(c, name)
    \/ \E id \in ArticleIds, kw \in TrendKeywords :
          CallCreateExpressCampaign(c, id, kw, 0)
    \/ \E n \in BatchSizes : CallAutoCreateFromTrends(c, n)
    \/ \E trendList \in TrendLists : TrendsAnswered(c, trendList)
    \/ TrendsRejected(c)
    \/ Provisioned(c)
    \/ \E err \in ProvisionErrors : ProvisioningRejected(c, err)
    \/ PacingElapsed(c)

\* one client creates campaigns while days pass and articles are removed
FacadeNext ==
    \/ CreationNext("a")
    \/ Tick
    \/ \E id \in ArticleIds : RemoveArticle(id)

SpecFacade == ServiceInit /\ [][FacadeNext]_vars

\* the life of the stored campaigns: what caller c may call and be answered
LifecycleNext(c) ==
    \/ \E kw \in TrendKeywords, d \in DurationHours :
          CallCreateExpressCampaign(c, "article-1", kw, d)
    \/ Provisioned(c)
    \/ \E err \in ProvisionErrors : ProvisioningRejected(c, err)
    \/ \E id \in CampaignIds : CallPauseCampaign(c, id)
    \/ \E id \in CampaignIds : CallEnableCampaign(c, id)
    \/ \E id \in CampaignIds : CallRemoveCampaign(c, id)
    \/ CallCleanupExpiredCampaigns(c)
    \/ UpdateOk(c)
    \/ \E err \in UpdateRejections : UpdateRejected(c, err)

\* one client: no two CampaignsService calls overlap
RegistryNext ==
    \/ LifecycleNext("a")
    \/ Tick

SpecRegistry == ServiceInit /\ [][RegistryNext]_vars

\* most campaigns the overlapping clients share
MaxShared == 1

\* two clients: express campaigns are created, and the calls of both clients on
\* them overlap; the platform applies an update at some moment before its answer
\* arrives, so updates may be applied in one order and answered in the other
OverlapNext ==
    \/ /\ attempts < MaxShared
       /\ \E kw \in TrendKeywords, d \in DurationHours :
              CallCreateExpressCampaign("a", "article-1", kw, d)
    \/ Provisioned("a")
    \/ \E c \in Callers :
          \/ \E id \in CampaignIds : CallPauseCampaign(c, id)
          \/ \E id \in CampaignIds : CallEnableCampaign(c, id)
          \/ \E id \in CampaignIds : CallRemoveCampaign(c, id)
          \/ CallCleanupExpiredCampaigns(c)
          \/ UpdateApplied(c)
          \/ UpdateOk(c)
          \/ \E err \in UpdateRejections : UpdateRejected(c, err)
    \/ Tick

SpecOverlap == ServiceInit /\ [][OverlapNext]_vars

(***************************************************************************)
(* Properties of the saga (specification Spec).                            *)
(***************************************************************************)
CallsOf(op) == {i \in 1..Len(trace) : trace[i] = Event("call", op)}
Issued(op) == CallsOf(op) # {}
Answers(op) == {i \in 1..Len(trace) : trace[i].op = op /\ trace[i].ev \in {"ok", "rejected"}}

\* the five-field body createHttpException builds
StructuredKeys == {"statusCode", "message", "errors", "requestId", "timestamp"}

\* createCampaign rejected with the classification of the failing step's platform error
SurfacesClassified ==
    /\ outcome.kind = "HttpException"
    /\ ~createHttpException(stepError).threw
    /\ outcome.exception = createHttpException(stepError).value

\* C1: whenever a provisioning step fails, rollbackCampaignCreation has been invoked
\* and has finished by the time createCampaign rejects.
C1_RollbackBeforeReject ==
    pc = "rejected" => rollback \in {"completed", "threw"}

\* C2: the create calls of one attempt are issued in the order budget, campaign,
\* ad group, keywords, ad; each one right after the previous one returned success;
\* and never are two calls of the attempt in flight.
C2_StrictlySequential ==
    LET order == <<"campaignBudgets.create", "campaigns.create", "adGroups.create",
                   "adGroupCriteria.create", "adGroupAds.create">>
    IN  /\ Cardinality(inflight) <= 1
        /\ \A i \in 1..Len(trace) :
              \A k \in 1..Len(order) :
                 trace[i] = Event("call", order[k]) =>
                    IF k = 1 THEN i = 1
                    ELSE i > 1 /\ trace[i - 1] = Event("ok", order[k - 1])

\* C2 witness: all five create calls were issued and answered.
C2_Witness ==
    /\ pc = "returned"
    /\ \A op \in CreateCalls : Issued(op)

\* C3: in a rollback with a campaign handle and a budget handle, the budget
\* removal is issued only after the direct campaign remove was issued and
\* every campaign removal call issued before it has been answered.
C3_CampaignBeforeBudget ==
    \A i \in CallsOf(BudgetRemove) :
       campaignResourceName # NoHandle =>
          /\ \E j \in CallsOf(CampaignRemove) : j < i
          /\ \A op \in {CampaignRemove, CampaignUpdate} :
                \A j \in CallsOf(op) : \E k \in Answers(op) : j < k /\ k < i

\* C3 witness: both removal strategies were tried and rejected, then the budget
\* removal was issued.
C3_Witness ==
    /\ pc = BudgetRemove
    /\ campaignResourceName # NoHandle
    /\ \E k \in Answers(CampaignUpdate) : trace[k].ev = "rejected"

\* C4: rollbackCampaignCreation completes without throwing whatever the platform
\* answers its calls with, and createCampaign rejects with the classification of
\* the error its catch block caught, never with an error raised during rollback.
C4_RollbackNeverThrows ==
    /\ rollback # "threw"
    /\ (pc = "rejected" /\ rollback = "completed") => outcome = Rejection(error)

\* C5: an attempt that fails at the keyword step issues no ad creation, issues a
\* campaign removal (the update if the remove was rejected) and then the budget
\* removal, and rejects with the classification of the keyword step's error.
C5_KeywordStepFailure ==
    (pc = "rejected" /\ failedStep = KeywordsCreate) =>
        /\ ~Issued(AdCreate)
        /\ \E i \in CallsOf(CampaignRemove) :
              /\ trace[i + 1] = Event("rejected", CampaignRemove)
                    => Issued(CampaignUpdate)
              /\ \E j \in CallsOf(BudgetRemove) : i < j
        /\ SurfacesClassified

\* C6: an attempt that fails at the budget step issues no removal, no update, no
\* delay and no later create call, and rejects with the classified budget error.
C6_BudgetStepFailure ==
    (pc = "rejected" /\ failedStep = BudgetCreate) =>
        /\ trace = <<Event("call", BudgetCreate), Event("rejected", BudgetCreate)>>
        /\ SurfacesClassified

\* C7: every rejection of createCampaign is an HttpException whose body carries
\* statusCode, message, errors, requestId and timestamp and whose HTTP status is
\* the body's statusCode.
C7_StructuredRejection ==
    pc = "rejected" =>
        /\ outcome.kind = "HttpException"
        /\ DOMAIN outcome.exception.body = StructuredKeys
        /\ outcome.exception.status = outcome.exception.body.statusCode

\* C8: within one call of createCampaign each create operation is issued at most
\* once, and once a step has failed no create call is in flight or issued again:
\* every later call is a rollback removal (or the rollback's delay).
C8_NoRetry ==
    /\ \A op \in CreateCalls : Cardinality(CallsOf(op)) <= 1
    /\ failedStep # Null => pc \notin CreateCalls
    /\ \A i \in 1..Len(trace) :
          (trace[i].ev = "rejected" /\ trace[i].op \in CreateCalls) =>
             \A j \in (i + 1)..Len(trace) :
                trace[j].ev = "call" =>
                   trace[j].op \in {"campaigns.remove", "campaigns.update",
                                    "campaignBudgets.remove", "setTimeout"}

\* C8 witness: the ad group step failed and the rollback ran to the budget removal.
C8_Witness ==
    /\ pc = "rejected"
    /\ failedStep = AdGroupCreate
    /\ Issued(BudgetRemove)

\* C9: the campaign of an attempt is never ENABLED on the platform unless
\* enableCampaign was called: it is created PAUSED, neither the saga nor the
\* rollback enables it, and a successful createCampaign returns status PAUSED.
C9_CreatedPaused ==
    /\ platformCampaign = "ENABLED" => enableCalled
    /\ (campaignResourceName # NoHandle /\ ~enableCalled)
          => platformCampaign \in {"PAUSED", "REMOVED"}
    /\ pc = "returned" => outcome.result.status = "PAUSED"

\* C9 witness: createCampaign returned and nothing enabled the campaign.
C9_Witness ==
    /\ pc = "returned"
    /\ ~enableCalled
    /\ platformCampaign = "PAUSED"
    /\ outcome.result.status = "PAUSED"

\* rollbackCampaignCreation was called in this attempt
RollbackInvoked == rollback # "not invoked"

\* the call `op` of this attempt was answered with success, or was rejected
Succeeded(op) == \E i \in 1..Len(trace) : trace[i] = Event("ok", op)
Rejected(op) == \E i \in 1..Len(trace) : trace[i] = Event("rejected", op)

\* C25 as claimed: rollback is given a campaign handle if and only if the
\* campaign-create call of the attempt returned success, and a budget handle if
\* and only if the budget-create call did; removal calls are issued only for those
\* handles: after a failure at campaign creation a budget removal and no campaign
\* removal, after a failure at ad group, keywords or ad both a campaign removal
\* and a budget removal; and no call other than the five creates, the campaign
\* remove and update, the delay and the budget removal is ever issued.
C25_RemovalsMatchHandles ==
    /\ RollbackInvoked =>
          /\ campaignResourceName # NoHandle <=> Succeeded(CampaignCreate)
          /\ budgetResourceName # NoHandle <=> Succeeded(BudgetCreate)
    /\ (Issued(CampaignRemove) \/ Issued(CampaignUpdate)) =>
          RollbackInvoked /\ campaignResourceName # NoHandle
    /\ Issued(BudgetRemove) => RollbackInvoked /\ budgetResourceName # NoHandle
    /\ (pc = "rejected" /\ RollbackInvoked /\ failedStep = CampaignCreate) =>
          Issued(BudgetRemove) /\ ~Issued(CampaignRemove) /\ ~Issued(CampaignUpdate)
    /\ (pc = "rejected" /\ RollbackInvoked
           /\ failedStep \in {AdGroupCreate, KeywordsCreate, AdCreate}) =>
          Issued(CampaignRemove) /\ Issued(BudgetRemove)
    /\ \A i \in 1..Len(trace) :
          trace[i].op \in CreateCalls \cup {CampaignRemove, CampaignUpdate,
                                           PropagationDelay, BudgetRemove}

\* C26 as claimed: in rollback the update to REMOVED is issued if and only if the
\* direct remove was issued and rejected; the campaign counts as removed if and
\* only if one of the two calls succeeded; and at most one remove and at most one
\* update call are issued.
C26_FallbackUpdate ==
    /\ Issued(CampaignUpdate) <=> Rejected(CampaignRemove)
    /\ campaignRemoved <=> (Succeeded(CampaignRemove) \/ Succeeded(CampaignUpdate))
    /\ Cardinality(CallsOf(CampaignRemove)) <= 1
    /\ Cardinality(CallsOf(CampaignUpdate)) <= 1

\* C27 as claimed: when a budget handle exists, a rollback issues the budget
\* removal exactly once whatever became of the campaign removal, and a rejected
\* budget removal is not retried and does not make the rollback fail.
C27_BudgetRemovedOnce ==
    /\ Cardinality(CallsOf(BudgetRemove)) <= 1
    /\ (pc = "rejected" /\ RollbackInvoked /\ budgetResourceName # NoHandle) =>
          /\ Cardinality(CallsOf(BudgetRemove)) = 1
          /\ rollback = "completed"

\* C28: in rollback the propagation delay occurs if and only if the campaign
\* removal succeeded (by remove or by the fallback update) and a budget handle
\* exists, and then it lies between the successful campaign removal call and the
\* budget removal; when the campaign was not removed or there is no campaign
\* handle, the budget removal follows the previous answer with no delay.
C28_DelayIffRemoved ==
    /\ Issued(PropagationDelay) <=> (campaignRemoved /\ budgetResourceName # NoHandle)
    /\ \A d \in CallsOf(PropagationDelay) :
          /\ trace[d - 1] \in {Event("ok", CampaignRemove), Event("ok", CampaignUpdate)}
          /\ \A b \in CallsOf(BudgetRemove) : d < b
    /\ \A b \in CallsOf(BudgetRemove) :
          IF campaignRemoved
          THEN /\ trace[b - 1] = Event("ok", PropagationDelay)
               /\ trace[b - 2] = Event("call", PropagationDelay)
          ELSE /\ ~Issued(PropagationDelay)
               /\ trace[b - 1] \in
                     {Event("rejected", CampaignUpdate)}
                        \cup {Event(ev, op) : ev \in {"ok", "rejected"}, op \in CreateCalls}

\* C28 witness: the remove was rejected, the fallback update succeeded, the delay
\* has elapsed and the budget removal is in flight.
C28_Witness ==
    /\ pc = BudgetRemove
    /\ Rejected(CampaignRemove)
    /\ Succeeded(CampaignUpdate)
    /\ Succeeded(PropagationDelay)

\* createCampaign is suspended on a call
Suspended == pc \notin {"idle", "returned", "rejected"}

\* every call of createCampaign settles
Terminates == Suspended ~> pc \in {"returned", "rejected"}

\* C31 as claimed: if every platform call eventually returns, every call of
\* createCampaign eventually terminates: it returns a CampaignResult after the ad
\* step succeeded, or it rejects after rollback has run.
C31_TerminatesAfterRollback ==
    Suspended ~> \/ pc = "returned" /\ outcome.kind = "CampaignResult" /\ Succeeded(AdCreate)
                 \/ pc = "rejected" /\ RollbackInvoked

(***************************************************************************)
(* Properties of the budget names (specification SpecBudget).              *)
(***************************************************************************)
SameCampaign(i, j) == i # j /\ budgetAttempts[i].name = budgetAttempts[j].name

\* C32: two attempts for the same campaign name submit different budget
\* names when they read different clock values (and the same name when they
\* read the same value), and an attempt made after an earlier attempt for
\* that campaign name failed and left its budget behind never submits the
\* orphaned budget's name.
C32_BudgetNameCarriesTimestamp ==
    \A i, j \in DOMAIN budgetAttempts : SameCampaign(i, j) =>
        /\ (budgetAttempts[i].timestamp # budgetAttempts[j].timestamp)
               <=> (budgetAttempts[i].budgetName # budgetAttempts[j].budgetName)
        /\ i \in budgetAttempts[j].retryOf =>
               budgetAttempts[i].budgetName # budgetAttempts[j].budgetName

\* a retry's budget was accepted while the orphan of the earlier attempt for
\* the same campaign name is still on the platform
C32_Witness ==
    \E i, j \in DOMAIN budgetAttempts :
        /\ SameCampaign(i, j)
        /\ i \in budgetAttempts[j].retryOf
        /\ budgetAttempts[i].state = "orphaned"
        /\ budgetAttempts[j].state = "created"

(***************************************************************************)
(* Properties of the classifier (specification SpecClassifier).            *)
(***************************************************************************)
\* the category of one sub-error: validation over authentication over
\* authorization over not-found over quota
Category(e) ==
    IF e.error_code.type \in ValidationTypes \/ e.error_code.value \in ValidationValues
    THEN "validation"
    ELSE IF e.error_code.type = "authentication_error" THEN "authentication"
    ELSE IF e.error_code.type = "authorization_error" THEN "authorization"
    ELSE IF e.error_code.type = "resource_not_found_error" THEN "not-found"
    ELSE IF e.error_code.type = "quota_error" THEN "quota"
    ELSE "none"

CategoryStatus(category) ==
    CASE category = "validation" -> 400
      [] category = "authentication" -> 401
      [] category = "authorization" -> 403
      [] category = "not-found" -> 404
      [] category = "quota" -> 429
      [] OTHER -> 400

\* the status of the highest-ranked category present anywhere in the list
HighestPrecedenceStatus(errors) ==
    LET present == {Category(errors[i]) : i \in 1..Len(errors)}
    IN  IF "validation" \in present THEN 400
        ELSE IF "authentication" \in present THEN 401
        ELSE IF "authorization" \in present THEN 403
        ELSE IF "not-found" \in present THEN 404
        ELSE IF "quota" \in present THEN 429
        ELSE 400

\* the status of the first sub-error, in list order, that has a category
FirstCategorisedStatus(errors) ==
    LET matching == {i \in 1..Len(errors) : Category(errors[i]) # "none"}
    IN  IF matching = {} THEN 400
        ELSE CategoryStatus(Category(errors[CHOOSE i \in matching :
                                               \A j \in matching : i <= j]))

\* a payload with several sub-errors, each an object with a usable location
SeveralSubErrors(err) ==
    /\ err.kind = "object"
    /\ err.hasErrors
    /\ Len(err.errors) >= 2
    /\ \A i \in 1..Len(err.errors) :
          ~err.errors[i].isNull /\ err.errors[i].location # "malformed"

\* C10 as claimed: for a payload with several sub-errors the classifier returns the
\* status of the highest-precedence category present among all sub-errors, whatever
\* their order in the list.
C10_HighestPrecedence ==
    (clsOutput.done /\ SeveralSubErrors(clsInput) /\ ~clsOutput.exception.threw) =>
        clsOutput.exception.value.status = HighestPrecedenceStatus(clsInput.errors)

\* C10 amended: for a payload with several sub-errors the classifier returns the
\* status of the first sub-error, in list order, that belongs to a known category
\* (400 when none does); the order of the list decides.
C10_FirstCategorised ==
    (clsOutput.done /\ SeveralSubErrors(clsInput)) =>
        /\ ~clsOutput.exception.threw
        /\ clsOutput.exception.value.status = FirstCategorisedStatus(clsInput.errors)
        /\ clsOutput.exception.value.body.statusCode
              = FirstCategorisedStatus(clsInput.errors)

\* C10 witness: a classified payload whose first categorised sub-error is not of
\* the highest-precedence category present.
C10_Witness ==
    /\ clsOutput.done
    /\ SeveralSubErrors(clsInput)
    /\ ~clsOutput.exception.threw
    /\ FirstCategorisedStatus(clsInput.errors) # HighestPrecedenceStatus(clsInput.errors)
    /\ clsOutput.exception.value.status = FirstCategorisedStatus(clsInput.errors)

\* a payload that matches no known category: not an HttpException, every sub-error
\* an object with a usable location and none of them of a known category
Unmatched(err) ==
    /\ err.kind # "HttpException"
    /\ \A i \in 1..Len(err.errors) :
          /\ ~err.errors[i].isNull
          /\ err.errors[i].location # "malformed"
          /\ Category(err.errors[i]) = "none"

\* a payload that carries at least one sub-error
HasSubErrors(err) == err.kind = "object" /\ err.hasErrors /\ Len(err.errors) > 0

\* C11 as claimed: every payload that matches no known category (unknown codes,
\* sub-errors without an error code, an empty sub-error list, no sub-error list at
\* all) is classified with the same generic status 400.
C11_GenericBadRequest ==
    (clsOutput.done /\ Unmatched(clsInput)) =>
        /\ ~clsOutput.exception.threw
        /\ clsOutput.exception.value.status = BAD_REQUEST

\* C11 amended: an unmatched payload with at least one sub-error is classified
\* 400; an unmatched payload with an empty sub-error list or with no sub-error
\* list at all is classified 500, the generic server error.
C11_GenericByShape ==
    (clsOutput.done /\ Unmatched(clsInput)) =>
        /\ ~clsOutput.exception.threw
        /\ clsOutput.exception.value.status =
              IF HasSubErrors(clsInput) THEN BAD_REQUEST ELSE INTERNAL_SERVER_ERROR
        /\ clsOutput.exception.value.body.statusCode =
              clsOutput.exception.value.status

\* C11 witness: a payload whose sub-error list is present and empty has been
\* classified 500.
C11_Witness ==
    /\ clsOutput.done
    /\ clsInput.kind = "object"
    /\ clsInput.hasErrors
    /\ clsInput.errors = <<>>
    /\ ~clsOutput.exception.threw
    /\ clsOutput.exception.value.status = INTERNAL_SERVER_ERROR

\* C12 as claimed: the classifier returns a classification for every payload; it
\* throws for none, a null sub-error and a malformed location included.
C12_ClassifierNeverThrows ==
    clsOutput.done => ~clsOutput.exception.threw

(***************************************************************************)
(* Properties of the matcher (specification SpecMatcher).                  *)
(***************************************************************************)
\* the place of a match's (trend, article) pair in the enumeration of the nested loops
EnumerationIndex(m) == (m.trend - 1) * Len(articles) + m.article

\* C20: the list matchWithTrends returns is ordered by score non-increasing, and
\* matches of equal score keep the order of the enumeration (trends in input
\* order, for each trend the articles in store order).
C20_StableByScore ==
    mtOutput.done =>
        \A i, j \in 1..Len(mtOutput.matches) :
            i < j =>
                /\ mtOutput.matches[i].score >= mtOutput.matches[j].score
                /\ mtOutput.matches[i].score = mtOutput.matches[j].score =>
                      EnumerationIndex(mtOutput.matches[i])
                          < EnumerationIndex(mtOutput.matches[j])

\* C20 witness: a returned list in which two matches tie and a third match, later
\* in the enumeration than both, has been moved in front of them.
C20_Witness ==
    /\ mtOutput.done
    /\ \E i, j, k \in 1..Len(mtOutput.matches) :
          /\ i < j /\ j < k
          /\ mtOutput.matches[j].score = mtOutput.matches[k].score
          /\ mtOutput.matches[i].score > mtOutput.matches[j].score
          /\ EnumerationIndex(mtOutput.matches[i]) > EnumerationIndex(mtOutput.matches[k])

\* the matches of the returned list that pair trend t with article a
MatchesOf(t, a) ==
    {i \in 1..Len(mtOutput.matches) :
        mtOutput.matches[i].trend = t /\ mtOutput.matches[i].article = a}

\* C21: matchWithTrends returns exactly one TrendMatch, carrying the pair's score,
\* for each (trend, article) pair of the cross-product whose score is at least 1,
\* and none for a pair whose score is 0; with an empty trend list or an empty
\* article store it returns the empty list.
C21_OneMatchPerPositivePair ==
    mtOutput.done =>
        /\ \A t \in 1..Len(mtInput) : \A a \in 1..Len(articles) :
              LET score == calculateRelevanceScore(mtInput[t], articles[a], clock)
              IN  IF score >= 1
                  THEN /\ Cardinality(MatchesOf(t, a)) = 1
                       /\ \A i \in MatchesOf(t, a) : mtOutput.matches[i].score = score
                  ELSE score = 0 /\ MatchesOf(t, a) = {}
        /\ \A i \in 1..Len(mtOutput.matches) :
              /\ mtOutput.matches[i].trend \in 1..Len(mtInput)
              /\ mtOutput.matches[i].article \in 1..Len(articles)
        /\ (mtInput = <<>> \/ articles = <<>>) => mtOutput.matches = <<>>

\* C21 witness: a run over two trends and two articles in which one pair scores 0
\* and is left out while another pair is returned.
C21_Witness ==
    /\ mtOutput.done
    /\ Len(mtInput) = 2 /\ Len(articles) = 2
    /\ \E t \in 1..Len(mtInput) : \E a \in 1..Len(articles) :
          /\ calculateRelevanceScore(mtInput[t], articles[a], clock) = 0
          /\ MatchesOf(t, a) = {}
    /\ mtOutput.matches # <<>>

(***************************************************************************)
(* Properties of the scorer (specification SpecScorer).  The score the     *)
(* claims describe is computed from the definition of a token and of a     *)
(* substring, not from split and includes.                                 *)
(***************************************************************************)
\* t occurs in s as a run of consecutive characters
IsSubstring(t, s) ==
    \E pre \in 0..Len(s) :
        /\ pre + Len(t) <= Len(s)
        /\ \A i \in 1..Len(t) : s[pre + i] = t[i]

EitherContains(x, y) == IsSubstring(x, y) \/ IsSubstring(y, x)

\* the whitespace-separated tokens of s, as spans <<first, last>>: a maximal run
\* of non-blank characters, or the empty span in front of a leading blank or
\* behind a trailing blank (the empty string is one empty span)
TokenSpans(s) ==
    {sp \in (1..(Len(s) + 1)) \X (0..Len(s)) :
        /\ sp[1] <= sp[2] + 1
        /\ sp[1] = 1 \/ s[sp[1] - 1] = Blank
        /\ sp[2] = Len(s) \/ s[sp[2] + 1] = Blank
        /\ \A i \in sp[1]..sp[2] : s[i] # Blank
        /\ sp[1] = sp[2] + 1 => (sp[1] = 1 \/ sp[2] = Len(s))}

\* the score of the scorer run's input by the weights 3, 2, 1 and the recency
\* bonus; with dropEmpty, empty tokens, empty related queries and empty article
\* keywords are left out of the counts
WeightedScore(dropEmpty) ==
    LET keyword == toLowerCase(scInput.trend.keyword)
        title == toLowerCase(scInput.article.title)
        spans == {sp \in TokenSpans(keyword) : ~dropEmpty \/ sp[1] <= sp[2]}
        token(sp) == SubSeq(keyword, sp[1], sp[2])
        keywords == {k \in 1..Len(scInput.article.keywords) :
                        ~dropEmpty \/ scInput.article.keywords[k] # <<>>}
        articleKeyword(k) == toLowerCase(scInput.article.keywords[k])
        queries == {i \in 1..Len(scInput.trend.relatedQueries) :
                       ~dropEmpty \/ scInput.trend.relatedQueries[i] # <<>>}
        query(i) == toLowerCase(scInput.trend.relatedQueries[i])
        age == scInput.now - scInput.article.publishedAt
    IN  3 * Cardinality({sp \in spans : IsSubstring(token(sp), title)})
        + 2 * Cardinality({p \in keywords \X spans :
                              EitherContains(articleKeyword(p[1]), token(p[2]))})
        + 1 * Cardinality({p \in keywords \X queries :
                              EitherContains(articleKeyword(p[1]), query(p[2]))})
        + (IF age < 24 THEN 2 ELSE IF age < 72 THEN 1 ELSE 0)

\* C22: calculateRelevanceScore(trend, article) is a non-negative integer equal,
\* with all strings lowercased, to 3 x (tokens of the trend keyword that are
\* substrings of the title) + 2 x ((article keyword, token) pairs where either
\* contains the other) + 1 x ((article keyword, related query) pairs where either
\* contains the other) + the recency bonus (2 under 24 hours of age, 1 from 24 to
\* under 72 hours, 0 otherwise).
C22_ScoreFormula ==
    scOutput.done =>
        /\ scOutput.score \in Nat
        /\ scOutput.score = WeightedScore(FALSE)

\* C22 witness: a trend against an article every step adds for: the token is in
\* the title, in one of the two article keywords, all four (keyword, related
\* query) pairs contain one another, and the age is in the 24 to 72 hours band.
C22_Witness ==
    /\ scOutput.done
    /\ scInput.trend.keyword = <<"A">>
    /\ scInput.trend.relatedQueries = << <<"B">>, <<"a", "b">> >>
    /\ scInput.article.title = <<"b", " ", "a">>
    /\ scInput.article.keywords = << <<"B">>, <<"a", "b">> >>
    /\ scInput.now - scInput.article.publishedAt = 24
    /\ scOutput.score = 3 * 1 + 2 * 1 + 1 * 4 + 1

\* C23 as claimed: empty inputs contribute zero to the score: the score is the
\* one obtained when the empty tokens of the trend keyword (an empty keyword, a
\* keyword of blanks, a leading or trailing blank), the empty related queries and
\* the empty article keywords are left out of every step.
C23_EmptyInputsContributeZero ==
    scOutput.done => scOutput.score = WeightedScore(TRUE)

(***************************************************************************)
(* The recency bonus in the matcher (specification SpecMatcher).           *)
(***************************************************************************)
\* hours from the publication of article a of the store to the scoring call
AgeHours(a) == clock - articles[a].publishedAt

\* trend t and article a of the run have no text in common: no token of the
\* trend keyword occurs in the title, and no article keyword contains, or is
\* contained in, a token or a related query
NothingShared(t, a) ==
    LET keyword == toLowerCase(mtInput[t].keyword)
        tokens == {SubSeq(keyword, sp[1], sp[2]) : sp \in TokenSpans(keyword)}
        queries == {toLowerCase(mtInput[t].relatedQueries[i]) :
                       i \in 1..Len(mtInput[t].relatedQueries)}
        keywords == {toLowerCase(articles[a].keywords[k]) :
                        k \in 1..Len(articles[a].keywords)}
    IN  /\ \A w \in tokens : ~IsSubstring(w, toLowerCase(articles[a].title))
        /\ \A k \in keywords : \A x \in tokens \cup queries : ~EitherContains(k, x)

\* C39: an article published less than 72 hours before the scoring call is
\* returned by matchWithTrends as a match, with score at least 1, for every
\* trend of the list, whatever the texts of the trend and of the article.
C39_FreshArticleMatchesAll ==
    mtOutput.done =>
        \A t \in 1..Len(mtInput) : \A a \in 1..Len(articles) :
            AgeHours(a) < 72 =>
                /\ calculateRelevanceScore(mtInput[t], articles[a], clock) >= 1
                /\ \E i \in MatchesOf(t, a) : mtOutput.matches[i].score >= 1

\* C39 witness: an article between 24 and 72 hours old is returned as a match
\* of score 1 for a trend it has no text in common with.
C39_Witness ==
    /\ mtOutput.done
    /\ \E t \in 1..Len(mtInput) : \E a \in 1..Len(articles) :
          /\ AgeHours(a) >= 24 /\ AgeHours(a) < 72
          /\ NothingShared(t, a)
          /\ \E i \in MatchesOf(t, a) : mtOutput.matches[i].score = 1

(***************************************************************************)
(* Properties of the campaigns service (specifications SpecFacade and      *)
(* SpecRegistry).                                                          *)
(***************************************************************************)
\* the entries of a call's log that are an `ev` of `call`
Logged(t, ev, call) == {i \in 1..Len(t.log) : t.log[i].ev = ev /\ t.log[i].call = call}

\* C13 as claimed: when createCampaign or createExpressCampaign has returned a
\* CampaignResult, the registry holds an entry keyed by the result's campaign id
\* whose result is the returned one.
C13_StoredAfterProvisioning ==
    \A c \in Callers :
        (task[c].op \in {"createCampaign", "createExpressCampaign"}
            /\ task[c].pc = "returned") =>
            /\ has(campaigns, task[c].outcome.value.campaignId)
            /\ get(campaigns, task[c].outcome.value.campaignId).id
                  = task[c].outcome.value.campaignId
            /\ get(campaigns, task[c].outcome.value.campaignId).result
                  = task[c].outcome.value

\* whether an entry is due for removal by a sweep whose `now` is given
Due(e, now) == e.expiresAt < now /\ e.status = "ACTIVE"

\* the entries of a registry that a sweep with that `now` keeps, in their order
Kept(reg, now) ==
    LET keep(e) == ~Due(e, now)
    IN  SelectSeq(reg, keep)

\* C14: a cleanupExpiredCampaigns that ran alone and whose platform removals all
\* succeeded has deleted exactly the entries that were expired at its `now` and
\* ACTIVE, has left every other entry as it was and in its place, and has returned
\* the number of entries it deleted, for every insertion order.
C14_SweepDeletesDue ==
    \A c \in Callers :
        (task[c].op = "cleanupExpiredCampaigns"
            /\ task[c].pc = "returned"
            /\ Logged(task[c], "rejected", CampaignUpdate) = {}) =>
            /\ campaigns = Kept(task[c].before, task[c].now)
            /\ task[c].outcome.value = Len(task[c].before) - Len(campaigns)
            /\ Cardinality(Logged(task[c], "call", CampaignUpdate)) = task[c].outcome.value

\* C14 witness: a sweep over three entries has returned 2: it deleted the second
\* and the third entry and kept the first, whose expiry is in the future, while an
\* earlier sweep order would have met the kept entry first.
C14_Witness ==
    \E c \in Callers :
        /\ task[c].op = "cleanupExpiredCampaigns"
        /\ task[c].pc = "returned"
        /\ Logged(task[c], "rejected", CampaignUpdate) = {}
        /\ Len(task[c].before) = 3
        /\ task[c].outcome.value = 2
        /\ campaigns = <<task[c].before[1]>>
        /\ task[c].before[1].expiresAt >= task[c].now

\* C15 as claimed: a cleanupExpiredCampaigns never rejects; when it has returned,
\* its count is the number of removals that succeeded and every entry whose
\* removal was rejected is in the registry as it was.
C15_SweepIsolatesFailures ==
    \A c \in Callers :
        task[c].op = "cleanupExpiredCampaigns" =>
            /\ task[c].pc # "rejected"
            /\ task[c].pc = "returned" =>
                  /\ task[c].outcome.value
                        = Cardinality(Logged(task[c], "ok", CampaignUpdate))
                  /\ \A i \in Logged(task[c], "rejected", CampaignUpdate) :
                        /\ has(campaigns, task[c].log[i].detail)
                        /\ get(campaigns, task[c].log[i].detail)
                              = get(task[c].before, task[c].log[i].detail)

\* the platform status pauseCampaign and enableCampaign submit, and the registry
\* status they set
SubmittedStatus(op) == IF op = "pauseCampaign" THEN "PAUSED" ELSE "ENABLED"
RegistryStatus(op) == IF op = "pauseCampaign" THEN "PAUSED" ELSE "ACTIVE"

\* C16: pauseCampaign and enableCampaign on an id the registry does not hold
\* return at once: no platform call, no error, the registry as it was.  On a known
\* id they issue exactly one campaigns.update, addressed by the resource name of
\* the entry's result, and once it has succeeded the registry differs from the one
\* before the call in that entry's status only.
C16_PauseEnable ==
    \A c \in Callers :
        task[c].op \in {"pauseCampaign", "enableCampaign"} =>
            IF task[c].campaign = Null
            THEN /\ task[c].pc = "returned"
                 /\ task[c].log = <<>>
                 /\ campaigns = task[c].before
            ELSE /\ Cardinality(Logged(task[c], "call", CampaignUpdate)) = 1
                 /\ task[c].log[1] =
                       Ev("call", CampaignUpdate,
                          [resource_name |->
                              get(task[c].before, task[c].campaign).result.resourceName,
                           status |-> SubmittedStatus(task[c].op)])
                 /\ extractId(task[c].log[1].detail.resource_name) = task[c].campaign
                 /\ Len(task[c].log[1].detail.resource_name) > 1
                 /\ task[c].pc = CampaignUpdate => campaigns = task[c].before
                 /\ task[c].pc = "returned" =>
                       campaigns = setStatus(task[c].before, task[c].campaign,
                                             RegistryStatus(task[c].op))

\* C16 witness: a pauseCampaign on a stored ACTIVE campaign has returned and the
\* entry is PAUSED, beside another entry that is still ACTIVE.
C16_Witness ==
    \E c \in Callers :
        /\ task[c].op = "pauseCampaign"
        /\ task[c].pc = "returned"
        /\ task[c].campaign # Null
        /\ Len(campaigns) >= 2
        /\ get(task[c].before, task[c].campaign).status = "ACTIVE"
        /\ get(campaigns, task[c].campaign).status = "PAUSED"
        /\ \E i \in 1..Len(campaigns) : campaigns[i].status = "ACTIVE"

\* the attempts of an autoCreateFromTrends so far: the createExpressCampaign calls
\* that reached the platform and those that threw NotFoundException before
Attempts(t) ==
    {i \in 1..Len(t.log) :
        \/ t.log[i].ev = "call" /\ t.log[i].call = Provision
        \/ t.log[i].ev = "throw"}

\* the campaign ids of the attempts that succeeded, in order
SucceededIds(t) ==
    LET ok(e) == e.ev = "ok" /\ e.call = Provision
        oks == SelectSeq(t.log, ok)
    IN  [i \in 1..Len(oks) |-> oks[i].detail]

\* C17: an autoCreateFromTrends whose trends were fetched never rejects, whatever
\* fails in its attempts; when it has returned, every top match was attempted and
\* its results are exactly those of the attempts that succeeded, in order.
C17_FailuresSkipped ==
    \A c \in Callers :
        task[c].op = "autoCreateFromTrends" =>
            /\ task[c].pc = "rejected" =>
                  /\ Logged(task[c], "rejected", DailyTrends) # {}
                  /\ Attempts(task[c]) = {}
            /\ task[c].pc = "returned" =>
                  /\ Cardinality(Attempts(task[c])) = Len(task[c].topMatches)
                  /\ task[c].outcome.value = task[c].results
                  /\ SucceededIds(task[c])
                        = [i \in 1..Len(task[c].results) |-> task[c].results[i].campaignId]

\* C17 witness: an autoCreateFromTrends has returned one result after its first
\* attempt was rejected by the platform and its second succeeded.
C17_Witness ==
    \E c \in Callers :
        /\ task[c].op = "autoCreateFromTrends"
        /\ task[c].pc = "returned"
        /\ Len(task[c].topMatches) = 2
        /\ Len(task[c].results) = 1
        /\ \E i \in Logged(task[c], "rejected", Provision) :
              \E j \in Logged(task[c], "ok", Provision) : i < j

\* C18 as claimed: in an autoCreateFromTrends, every platform call of an attempt
\* that follows another attempt is made when the pacing delay has just elapsed,
\* whether the attempt before succeeded or failed.
C18_PacedAttempts ==
    \A c \in Callers :
        task[c].op = "autoCreateFromTrends" =>
            \A i \in Logged(task[c], "call", Provision) :
                (\E h \in Attempts(task[c]) : h < i) =>
                    task[c].log[i - 1] = Ev("ok", Pacing, PacingDelayMs)

\* C19 as claimed: no two create attempts submit the same campaign name; in
\* particular the names createExpressCampaign generates differ from one attempt to
\* the next, for the same trend keyword on the same day too.
C19_UniqueNames ==
    \A i, j \in 1..Len(submitted) :
        (i # j /\ submitted[i].prefix = "Express: " /\ submitted[j].prefix = "Express: ") =>
            submitted[i] # submitted[j]

\* caller c makes a createExpressCampaign call in this step
CallsExpress(c) ==
    /\ Callable(c)
    /\ task'[c] # task[c]
    /\ task'[c].op = "createExpressCampaign"

\* the article id a createExpressCampaign call was made for
CalledFor(t) == IF t.pc = "rejected" THEN t.outcome.error.id ELSE t.dto.articleId

\* C24: createExpressCampaign for an article id absent from the article store
\* rejects with a not-found error before any platform call is issued and without
\* adding or changing any registry entry; for an id in the store it goes on to
\* the platform.
C24_NotFoundBeforePlatform ==
    [][\A c \in Callers :
          CallsExpress(c) =>
             IF findOne(articles, CalledFor(task'[c])) = {}
             THEN /\ task'[c].pc = "rejected"
                  /\ task'[c].outcome.error = NotFoundException(CalledFor(task'[c]))
                  /\ \A i \in 1..Len(task'[c].log) : task'[c].log[i].ev = "throw"
                  /\ campaigns' = campaigns
                  /\ attempts' = attempts
                  /\ submitted' = submitted
             ELSE /\ task'[c].pc = Provision
                  /\ attempts' = attempts + 1]_vars

\* C24 witness: a createExpressCampaign call was rejected with the not-found
\* error while the registry held an entry, which is still there.
C24_Witness ==
    \E c \in Callers :
        /\ task[c].op = "createExpressCampaign"
        /\ task[c].pc = "rejected"
        /\ task[c].outcome.error.name = "NotFoundException"
        /\ Logged(task[c], "call", Provision) = {}
        /\ campaigns # <<>>
        /\ campaigns = task[c].before

\* the platform call removeCampaign issues for the registry entry of `id`
RemovalOf(id) ==
    Ev("call", CampaignUpdate,
       [resource_name |-> get(campaigns, id).result.resourceName, status |-> "REMOVED"])

\* caller c makes a removeCampaign call in this step
CallsRemove(c) ==
    /\ Callable(c)
    /\ task'[c].op = "removeCampaign"
    /\ task[c].op # "removeCampaign" \/ task'[c] # task[c]

\* C29: removeCampaign on a known id first issues the platform removal addressed
\* by the entry's resource-name handle and deletes the local entry only after that
\* call succeeded; if the platform call rejects, the entry stays in the registry
\* unchanged and the error propagates; on an unknown id it issues no platform
\* call and changes nothing.
C29_RemoveAfterPlatform ==
    [][\A c \in Callers :
          /\ CallsRemove(c) =>
                /\ campaigns' = campaigns
                /\ IF has(campaigns, task'[c].dto.id)
                   THEN /\ task'[c].pc = CampaignUpdate
                        /\ task'[c].campaign = task'[c].dto.id
                        /\ task'[c].log = <<RemovalOf(task'[c].dto.id)>>
                   ELSE /\ task'[c].pc = "returned"
                        /\ task'[c].log = <<>>
          /\ (task[c].op = "removeCampaign" /\ task[c].pc = CampaignUpdate) =>
                /\ has(campaigns, task[c].campaign)
                /\ campaigns = task[c].before
                /\ task'[c] # task[c] =>
                      \/ /\ task'[c].pc = "returned"
                         /\ task'[c].log = <<RemovalOf(task[c].campaign),
                                              Ev("ok", CampaignUpdate, task[c].campaign)>>
                         /\ campaigns' = delete(campaigns, task[c].campaign)
                         /\ ~has(campaigns', task[c].campaign)
                      \/ /\ task'[c].pc = "rejected"
                         /\ task'[c].log = <<RemovalOf(task[c].campaign),
                                              Ev("rejected", CampaignUpdate, task[c].campaign)>>
                         /\ task'[c].outcome.error \in UpdateRejections
                         /\ campaigns' = campaigns]_vars

\* C29 witness: the platform rejected the removal and removeCampaign rejected; the
\* entry is in the registry as it was when the call was made.
C29_Witness ==
    \E c \in Callers :
        /\ task[c].op = "removeCampaign"
        /\ task[c].pc = "rejected"
        /\ Logged(task[c], "rejected", CampaignUpdate) # {}
        /\ has(campaigns, task[c].campaign)
        /\ campaigns = task[c].before

\* the provisioning calls and answers in the log of a call, in order
ProvisionEvents(t) ==
    LET provision(e) == e.call = Provision
    IN  SelectSeq(t.log, provision)

\* the state of an autoCreateFromTrends call whose trends have been answered: the
\* matches it works on are the first maxCampaigns of the ranked list, no attempt
\* starts before the one before it was answered, and the results are those of the
\* successful attempts in the order of the attempts, at most maxCampaigns of them
BatchInOrder(t) ==
    LET ranked == matchWithTrends(t.trends, t.store, t.now)
        events == ProvisionEvents(t)
        succeeded(e) == e.ev = "ok"
    IN  /\ Len(t.topMatches) <= t.dto.maxCampaigns
        /\ Len(t.topMatches) <= Len(ranked)
        /\ Len(t.topMatches) = t.dto.maxCampaigns \/ Len(t.topMatches) = Len(ranked)
        /\ \A k \in 1..Len(t.topMatches) : t.topMatches[k] = ranked[k]
        /\ \A i \in 1..Len(events) :
              events[i].ev = "call" <=> i % 2 = 1
        /\ Len(events) <= 2 * t.match
        /\ t.match <= Len(t.topMatches)
        /\ Len(t.results) <= t.dto.maxCampaigns
        /\ Len(t.results) = Len(SelectSeq(events, succeeded))
        /\ \A k \in 1..Len(t.results) :
              t.results[k].campaignId = SelectSeq(events, succeeded)[k].detail

\* C30: autoCreateFromTrends attempts provisioning only for the first
\* maxCampaigns entries of the ranked match list, in rank order and one at a
\* time: an attempt issues its platform call only after the attempt before it
\* was answered; the returned results are in rank order and at most maxCampaigns.
C30_RankedBatch ==
    [][\A c \in Callers :
          (task'[c].op = "autoCreateFromTrends"
              /\ task'[c].pc \notin {DailyTrends, "rejected"}) =>
             /\ BatchInOrder(task'[c])
             /\ Len(ProvisionEvents(task'[c])) > Len(ProvisionEvents(task[c])) =>
                   IF task'[c].pc = Provision
                   THEN \* a new attempt: for a match further down the ranking
                        /\ task[c].pc \in {DailyTrends, Provision, Pacing}
                        /\ task'[c].match > task[c].match
                        /\ task'[c].dto.articleId
                              = MatchArticle(task'[c], task'[c].match).id
                        /\ task'[c].dto.trendKeyword
                              = MatchTrend(task'[c], task'[c].match).keyword
                   ELSE \* the answer to the attempt in flight
                        /\ task[c].pc = Provision
                        /\ task'[c].match >= task[c].match]_vars

\* C30 witness: the ranked list is longer than maxCampaigns = 2, and the call
\* returned the results of the two attempts it made.
C30_Witness ==
    \E c \in Callers :
        /\ task[c].op = "autoCreateFromTrends"
        /\ task[c].pc = "returned"
        /\ Len(matchWithTrends(task[c].trends, task[c].store, task[c].now)) > 2
        /\ Len(task[c].topMatches) = 2
        /\ Len(task[c].results) = 2

\* no CampaignsService call is in progress
Quiescent == \A c \in Callers : Callable(c)

\* the status the platform holds for the campaign of a registry entry
PlatformStatus(e) == platform[e.result.resourceName]

\* a registry entry shows the status its campaign has on the platform
Mirrors(e) ==
    /\ e.status = "ACTIVE" => PlatformStatus(e) = "ENABLED"
    /\ e.status = "PAUSED" => PlatformStatus(e) = "PAUSED"

\* C33: in every state with no operation in flight, every registry entry with
\* status ACTIVE has its campaign ENABLED on the platform and every entry with
\* status PAUSED has it PAUSED, from the moment createExpressCampaign inserted
\* the entry.
C33_RegistryMirrorsPlatform ==
    Quiescent => \A i \in 1..Len(campaigns) : Mirrors(campaigns[i])

\* the call of c completed: the platform update it awaited was answered with success
Completed(c, op) ==
    /\ task[c].op = op
    /\ task[c].pc = "returned"
    /\ task[c].log # <<>>
    /\ task[c].log[Len(task[c].log)].ev = "ok"

\* C36: every registry entry has status ACTIVE or PAUSED in every state: a
\* step inserts entries as ACTIVE and assigns nothing but ACTIVE or PAUSED,
\* also to an entry past its expiry, which stays in the registry with one of
\* these statuses until it is deleted.
C36_StatusActiveOrPaused ==
    [][\A i \in 1..Len(campaigns') :
          /\ campaigns'[i].status \in {"ACTIVE", "PAUSED"}
          /\ ~has(campaigns, campaigns'[i].id) => campaigns'[i].status = "ACTIVE"]_vars

\* C36 witness: an entry past its expiry was paused and is in the registry as
\* PAUSED.
C36_Witness ==
    /\ Quiescent
    /\ \E c \in Callers : Completed(c, "pauseCampaign")
    /\ \E i \in 1..Len(campaigns) :
          /\ campaigns[i].expiresAt < clock
          /\ campaigns[i].status = "PAUSED"

\* the platform update of a pauseCampaign / enableCampaign call of c was rejected
UpdateFailed(c) ==
    /\ task[c].op \in {"pauseCampaign", "enableCampaign"}
    /\ task[c].log # <<>>
    /\ task[c].log[Len(task[c].log)].ev = "rejected"

\* C37: when the platform update of pauseCampaign or enableCampaign rejects,
\* the registry is what it was when the call was made (the campaign keeps its
\* status, no other entry changes) and the call rejects with the platform's error.
C37_RejectedUpdateLeavesRegistry ==
    \A c \in Callers : UpdateFailed(c) =>
        /\ campaigns = task[c].before
        /\ task[c].pc = "rejected"
        /\ task[c].outcome.kind = "rejected"
        /\ task[c].outcome.error \in UpdateRejections

\* C37 witness: enableCampaign of a PAUSED campaign was rejected and the
\* campaign is still PAUSED.
C37_Witness ==
    \E c \in Callers :
        /\ UpdateFailed(c)
        /\ task[c].op = "enableCampaign"
        /\ get(campaigns, task[c].campaign).status = "PAUSED"
        /\ task[c].outcome.error # UndefinedError

(***************************************************************************)
(* Properties of overlapping calls (specification SpecOverlap).            *)
(***************************************************************************)
\* the calls of c1 and c2 were both suspended on their update of the same campaign
\* at some moment: one of them was made while the other was suspended
Overlapped(c1, c2) ==
    /\ task[c1].campaign = task[c2].campaign
    /\ \/ <<task[c1].op, task[c1].campaign>> \in task[c2].during
       \/ <<task[c2].op, task[c2].campaign>> \in task[c1].during

\* C34: after an overlapping pauseCampaign and enableCampaign on the same stored
\* campaign have both completed, the registry status of the campaign
\* corresponds to the status the platform holds, which is the one of the update
\* applied last (PAUSED with PAUSED, ACTIVE with ENABLED).
C34_OverlapConverges ==
    \A c1, c2 \in Callers :
        (/\ Completed(c1, "pauseCampaign")
         /\ Completed(c2, "enableCampaign")
         /\ Overlapped(c1, c2)
         /\ has(campaigns, task[c1].campaign))
        => Mirrors(get(campaigns, task[c1].campaign))

\* the calls suspended on a platform removal of the campaign of that resource name
RemovalsInFlight(resourceName) ==
    {c \in Callers : /\ task[c].pc = CampaignUpdate
                     /\ Requested(task[c]).status = "REMOVED"
                     /\ Requested(task[c]).resource_name = resourceName}

\* C35: however cleanupExpiredCampaigns and removeCampaign calls interleave, no
\* two platform removals of the same stored campaign are issued, and the count
\* a sweep has reached equals the number of registry entries it deleted (so the
\* counts of the sweeps add up to the entries they deleted, none counted twice).
C35_SweepsCountOnce ==
    /\ \A i \in 1..Len(campaigns) :
          Cardinality(RemovalsInFlight(campaigns[i].result.resourceName)) <= 1
    /\ \A c \in Callers :
          task[c].op = "cleanupExpiredCampaigns" => task[c].cleaned = task[c].deleted

(***************************************************************************)
(* Failed creations (specification SpecFacade).                            *)
(***************************************************************************)
\* the failures of createExpressCampaign a call has seen: a provisioning that
\* rejected, an article that was not found
Failures(t) ==
    LET failure(e) == (e.call = Provision /\ e.ev = "rejected") \/ e.ev = "throw"
    IN  SelectSeq(t.log, failure)

\* C38: a step in which createExpressCampaign fails (the article is not found,
\* or provisioning rejects; called directly or from autoCreateFromTrends)
\* leaves the registry unchanged, and a direct call that has failed finds the
\* registry as it was when the call was made; so every registry entry refers
\* to a campaign whose provisioning succeeded.
C38_FailureLeavesRegistry ==
    [][\A c \in Callers :
          /\ (task'[c].op = "createExpressCampaign" /\ task'[c].pc = "rejected") =>
                 /\ campaigns' = campaigns
                 /\ campaigns' = task'[c].before
          /\ (task[c].pc = Provision /\ Len(Failures(task'[c])) > Len(Failures(task[c]))) =>
                 campaigns' = campaigns
          /\ \A i \in 1..Len(campaigns') :
                 campaigns'[i].result.resourceName \in DOMAIN platform']_vars

\* C38 witness: the registry holds an entry, and a createExpressCampaign call
\* whose provisioning rejected left it as it was.
C38_Witness ==
    \E c \in Callers :
        /\ task[c].op = "createExpressCampaign"
        /\ task[c].pc = "rejected"
        /\ Len(Failures(task[c])) = 1
        /\ Len(campaigns) >= 1
        /\ campaigns = task[c].before

====
